---- MODULE Spec2Model ----
(***************************************************************************)
(* Bee-Slicer-CLI: the printer session scripts for the BEETHEFIRST         *)
(* printer, modelled as one state machine.                                 *)
(*                                                                         *)
(* Each script of the repository is a straight-line program with polling   *)
(* loops.  `script` names the script being run, `pc` its position, the     *)
(* remaining variables are the script's own variables (with the names the  *)
(* source gives them) and the part of the device the script can observe.   *)
(* The device (the beedriver library and the printer behind it) is not     *)
(* part of the repository: every answer it gives is a nondeterministic     *)
(* choice over the answers the scripts are written to handle.              *)
(*                                                                         *)
(* `trace` is the sequence of device commands issued by a script (with the *)
(* settle sleeps that follow a mode switch).  The polls of the transfer,   *)
(* heating and monitoring loops are not appended to it: they are counted   *)
(* by the loops' own variables.                                            *)
(*                                                                         *)
(* Spec is the nine scripts run against every device behaviour; FairSpec  *)
(* adds that a running script takes its next step; SanSpec runs the two    *)
(* device file name derivations on every host name up to a given length;   *)
(* ScanSpec runs the G-code scans on every file up to a given length;      *)
(* DirectSpec runs the send loop of print_direct.py on every file up to a  *)
(* given number of commands.                                               *)
(***************************************************************************)
EXTENDS Integers, Sequences, FiniteSets, TLC

VARIABLES
    script,             \* which script is running
    pc,                 \* position in the script
    exit_code,          \* -1 while running, else the process exit status
    cmd,                \* command interface held by the script: 0 = None, n = n-th interface
    mode,               \* last getPrinterMode() answer
    status,             \* last getStatus() answer
    trace,              \* device commands issued so far (see above)
    printed,            \* tags of the messages the script has printed
    target_temp,        \* temperature found by the G-code scan
    transferring,       \* device: the transfer thread is alive
    elapsed,            \* seconds waited in the current bounded wait loop
    current_temp,       \* last getNozzleTemperature() answer
    last_reported_temp, \* heating loop: last temperature printed
    samples,            \* heating loop: number of temperature samples requested
    basename,           \* os.path.basename(gcode_file)
    file_list,          \* FileNames of cmd.getFileList(), or NoList
    sd_filename,        \* derived device file name
    is_printing,        \* confirmation result
    i,                  \* loop index of the current for-loop
    dev,                \* device: which start dialect it honours, and whether it prints
    gcode_lines,        \* the lines of the G-code file a scan is applied to
    response,           \* SD start, confirmation, monitor.py: last answer kept in `response`
    status_response,    \* last 'M625' answer the script kept
    last_progress,      \* transfer loop: last completion percentage printed
    rejected,           \* device: start commands it answered with an error
    sent_count,         \* print_direct.py: commands whose sendCmd() returned
    error_count         \* print_direct.py: commands that raised or were answered with an error

vars == <<script, pc, exit_code, cmd, mode, status, trace, printed, target_temp,
          transferring, elapsed, current_temp, last_reported_temp, samples,
          basename, file_list, sd_filename, is_printing, i, dev,
          gcode_lines, response, status_response, last_progress, rejected,
          sent_count, error_count>>

(* Groups of variables, for UNCHANGED. *)
heatVars == <<current_temp, last_reported_temp, samples>>
devVars  == <<transferring, dev>>
jobVars  == <<target_temp, basename, file_list, sd_filename, is_printing>>
respVars == <<response, status_response>>
ioVars   == <<gcode_lines, respVars, last_progress, rejected>>
sendVars == <<sent_count, error_count>>

-----------------------------------------------------------------------------
(* The scripts. *)

SrcPrint        == "src/src/print.py"
RootPrint       == "src/print.py"
StandalonePrint == "src/standalone-printer/print.py"
TestM23M24      == "src/print_test_m23m24.py"
Calibrate       == "src/src/calibrate.py"
Load            == "src/src/load.py"
Unload          == "src/src/unload.py"
Monitor         == "src/src/monitor.py"
RootUnload      == "src/unload.py"

Scripts == {SrcPrint, RootPrint, StandalonePrint, TestM23M24, Calibrate, Load, Unload,
            Monitor, RootUnload}

(* None, where the value is otherwise a string (a mode, a status). *)
None == "None"

(* None, where the value is otherwise a sequence (a response, a file     *)
(* list): no response holds a string of more than one character.         *)
NoResponse == <<"None">>

(* None, where the value is otherwise a list of names. *)
NoList == <<NoResponse>>

(* getPrinterMode() answers. *)
Modes == {"Bootloader", "Firmware", None}

(* getStatus() answers the scripts distinguish. *)
Statuses == {"Ready", "Shutdown", None}

(* An event of the trace: a command and its argument (<<>> when it has none). *)
Ev(c) == [cmd |-> c, arg |-> <<>>]
EvA(c, a) == [cmd |-> c, arg |-> a]

Last(s) == s[Len(s)]

(* sys.exit(n): the process ends with status n; nothing runs afterwards. *)
Exit(n) == /\ pc' = "exited"
           /\ exit_code' = n

(* An uncaught exception ends the process with a traceback (status 1). *)
Crash == /\ pc' = "crashed"
         /\ exit_code' = 1

-----------------------------------------------------------------------------
(* Connection. *)

(* Scripts that check the command interface for None after connecting. *)
ChecksIntfAfterConnect == {SrcPrint, Calibrate}

(* Step 1 of every script: find the printer, connect, get the command      *)
(* interface.  how = "fail": no printer / connect failed; "nointf": the    *)
(* connection has no command interface (getCommandIntf() is None).         *)
Connect ==
    /\ pc = "start"
    /\ \E how \in {"ok", "fail", "nointf"} :
         CASE how = "fail" /\ script \notin {Load, Unload, TestM23M24} ->
                /\ Exit(1)
                /\ printed' = printed \cup {"ERROR: connect"}
                /\ UNCHANGED cmd
           [] how = "fail" /\ script = TestM23M24 ->
                \* getPrinterList() empty: "No printer found", exit(1)
                /\ Exit(1)
                /\ printed' = printed \cup {"ERROR: connect"}
                /\ UNCHANGED cmd
           [] how = "fail" /\ script \in {Load, Unload} ->
                \* connectToFirstPrinter() raising is caught; a False result is ignored
                /\ Exit(1)
                /\ printed' = printed \cup {"ERROR: connect"}
                /\ UNCHANGED cmd
           [] how = "nointf" /\ script \in ChecksIntfAfterConnect ->
                /\ Exit(1)
                /\ printed' = printed \cup {"ERROR: no command interface"}
                /\ UNCHANGED cmd
           [] how = "nointf" /\ script \notin ChecksIntfAfterConnect \cup {RootUnload} ->
                \* cmd = None is kept; the first use of cmd raises AttributeError
                /\ pc' = "use_none"
                /\ cmd' = 0
                /\ UNCHANGED <<exit_code, printed>>
           [] how = "ok" \/ (how = "nointf" /\ script = RootUnload) ->
                \* src/unload.py builds its interface itself: cmd = comm.Command(c)
                /\ pc' = CASE script = TestM23M24 -> "test_status"
                            [] script = Monitor    -> "monitor_pass"
                            [] script = RootUnload -> "settle"
                            [] OTHER               -> "mode_check"
                /\ cmd' = 1
                /\ UNCHANGED <<exit_code, printed>>
    /\ UNCHANGED <<script, sendVars, ioVars, mode, status, trace, elapsed, i, heatVars, devVars, jobVars>>

(* cmd is None and the script calls a method on it.  monitor.py does so    *)
(* inside its try: the AttributeError is printed and the exit status is 1. *)
UseNone ==
    /\ pc = "use_none"
    /\ IF script = Monitor
         THEN /\ Exit(1)
              /\ printed' = printed \cup {"ERROR"}
         ELSE /\ Crash
              /\ UNCHANGED printed
    /\ UNCHANGED <<script, sendVars, ioVars, cmd, mode, status, trace, elapsed, i,
                   heatVars, devVars, jobVars>>

-----------------------------------------------------------------------------
(* Mode switch (Session Manager). *)

(* The guard with its test dropped: the switch is made whatever the mode. *)
AlwaysSwitch(s, m) == TRUE

(* The test that guards the switch to firmware.  load.py and unload.py     *)
(* switch only from 'Bootloader'; the other scripts whenever the mode is   *)
(* not 'Firmware' (an unknown mode included).                              *)
NeedsSwitch(s, m) ==
    IF s \in {Load, Unload} THEN m = "Bootloader" ELSE m # "Firmware"

(* Scripts that call c.reconnect() after the settle sleep. *)
Reconnects == {SrcPrint, Calibrate, Load, Unload, RootUnload}

(* Scripts that stop when reconnect() is False or the new interface is None. *)
ChecksReconnect == {SrcPrint, Calibrate}

(* Where each script goes once the mode stage is over. *)
AfterMode(s) ==
    CASE s \in {SrcPrint, RootPrint} -> "status_check"
      [] s = StandalonePrint         -> "scan"
      [] s = Calibrate               -> "calibrate"
      [] s \in {Load, Unload}        -> "start_heating"

(* mode = cmd.getPrinterMode() and the test that follows it. *)
ModeCheck ==
    /\ pc = "mode_check"
    /\ \E m \in Modes :
         /\ mode' = m
         /\ trace' = Append(trace, EvA("getPrinterMode", m))
         /\ pc' = IF NeedsSwitch(script, m) THEN "go_firmware" ELSE AfterMode(script)
    /\ UNCHANGED <<script, sendVars, ioVars, exit_code, cmd, status, printed, elapsed, i,
                   heatVars, devVars, jobVars>>

(* cmd.goToFirmware() *)
GoToFirmware ==
    /\ pc = "go_firmware"
    /\ trace' = Append(trace, Ev("goToFirmware"))
    /\ pc' = "settle"
    /\ UNCHANGED <<script, sendVars, ioVars, exit_code, cmd, mode, status, printed, elapsed, i,
                   heatVars, devVars, jobVars>>

(* time.sleep(5) or time.sleep(2) after goToFirmware(); the scripts that   *)
(* do not reconnect go on with the interface they had.  src/unload.py      *)
(* sleeps and reconnects without a mode query or a switch.                 *)
Settle ==
    /\ pc = "settle"
    /\ trace' = Append(trace, Ev("sleep"))
    /\ pc' = IF script \in Reconnects THEN "reconnect" ELSE AfterMode(script)
    /\ UNCHANGED <<script, sendVars, ioVars, exit_code, cmd, mode, status, printed, elapsed, i,
                   heatVars, devVars, jobVars>>

(* c.reconnect(); src/unload.py keeps the interface it has. *)
Reconnect ==
    /\ pc = "reconnect"
    /\ \E ok \in BOOLEAN :
         /\ trace' = Append(trace, EvA("reconnect", ok))
         /\ IF ~ok /\ script \in ChecksReconnect
              THEN /\ Exit(1)
                   /\ printed' = printed \cup {"ERROR: reconnect"}
              ELSE /\ pc' = IF script = RootUnload THEN "heat_start" ELSE "get_intf"
                   /\ UNCHANGED <<exit_code, printed>>
    /\ UNCHANGED <<script, sendVars, ioVars, cmd, mode, status, elapsed, i, heatVars, devVars, jobVars>>

(* cmd = c.getCommandIntf() after the reconnect; src/src/print.py then     *)
(* queries the mode again.                                                 *)
GetCommandIntf ==
    /\ pc = "get_intf"
    /\ \E intf \in {0, cmd + 1} :
         /\ cmd' = intf
         /\ trace' = Append(trace, EvA("getCommandIntf", intf))
         /\ IF intf = 0
              THEN IF script \in ChecksReconnect
                     THEN /\ Exit(1)
                          /\ printed' = printed \cup {"ERROR: no command interface"}
                          /\ UNCHANGED mode
                     ELSE /\ pc' = "use_none"
                          /\ UNCHANGED <<exit_code, printed, mode>>
              ELSE /\ pc' = AfterMode(script)
                   /\ UNCHANGED <<exit_code, printed>>
                   /\ IF script = SrcPrint
                        THEN \E m \in Modes : mode' = m
                        ELSE UNCHANGED mode
    /\ UNCHANGED <<script, sendVars, ioVars, status, elapsed, i, heatVars, devVars, jobVars>>

-----------------------------------------------------------------------------
(* Source file check and shutdown latch. *)

(* Scripts that take a G-code file as their argument. *)
TakesFile == {SrcPrint, RootPrint, StandalonePrint}

(* os.path.exists(gcode_file), before anything is sent to the device. *)
FileCheck ==
    /\ pc = "begin"
    /\ \E exists \in BOOLEAN :
         IF script \in TakesFile /\ ~exists
           THEN /\ Exit(1)
                /\ printed' = printed \cup {"ERROR: File not found"}
           ELSE /\ pc' = "start"
                /\ UNCHANGED <<exit_code, printed>>
    /\ UNCHANGED <<script, sendVars, ioVars, cmd, mode, status, trace, elapsed, i,
                   heatVars, devVars, jobVars>>

(* status = cmd.getStatus() *)
StatusCheck ==
    /\ pc = "status_check"
    /\ \E st \in Statuses :
         /\ status' = st
         /\ trace' = Append(trace, EvA("getStatus", st))
         /\ pc' = IF st = "Shutdown" THEN "clear_shutdown" ELSE "scan"
    /\ UNCHANGED <<script, sendVars, ioVars, exit_code, cmd, mode, printed, elapsed, i,
                   heatVars, devVars, jobVars>>

(* cmd.clearShutdownFlag(); time.sleep(2); status = cmd.getStatus() *)
ClearShutdown ==
    /\ pc = "clear_shutdown"
    /\ \E st \in Statuses :
         /\ status' = st
         /\ trace' = trace \o <<Ev("clearShutdownFlag"), EvA("getStatus", st)>>
    /\ printed' = printed \cup {"New status"}
    /\ pc' = "scan"
    /\ UNCHANGED <<script, sendVars, ioVars, exit_code, cmd, mode, elapsed, i, heatVars, devVars, jobVars>>

-----------------------------------------------------------------------------
(* G-code metadata scan. *)

(* A line of a G-code file, as the scan sees it: kind is "M104" or "M109"  *)
(* for a heating command, "other" for any other command, "skip" for an     *)
(* empty or comment line; parse is "ok" when the S argument parses (s is   *)
(* then int(float(..)) of it), "bad" when int(float(..)) raises, "absent"  *)
(* when the line has no ' S'.                                              *)
Line(k, p, v) == [kind |-> k, parse |-> p, s |-> v]

IsHeatLine(l) == l.kind \in {"M104", "M109"}

Parsable(l) == IsHeatLine(l) /\ l.parse = "ok"

DefaultTemp == 200

(* The threshold one degree lower: 150 itself would pass `temp > ..`. *)
TempThresholdBelow == 150 - 1

TempThreshold == 150

(* The scan loop of src/src/print.py: the last value above the threshold. *)
RECURSIVE ScanThreshold(_, _)
ScanThreshold(f, t) ==
    IF f = <<>> THEN t
    ELSE ScanThreshold(Tail(f),
                       IF Parsable(Head(f)) /\ Head(f).s > TempThreshold
                         THEN Head(f).s ELSE t)

(* A scan in which a heating line that does not parse puts the target back *)
(* to the default.                                                         *)
RECURSIVE ScanLastResetting(_, _)
ScanLastResetting(f, t) ==
    IF f = <<>> THEN t
    ELSE ScanLastResetting(Tail(f),
                           IF Parsable(Head(f)) THEN Head(f).s
                           ELSE IF IsHeatLine(Head(f)) THEN DefaultTemp ELSE t)

(* The scan loop of src/print.py: the last parsable value, no threshold. *)
RECURSIVE ScanLast(_, _)
ScanLast(f, t) ==
    IF f = <<>> THEN t
    ELSE ScanLast(Tail(f), IF Parsable(Head(f)) THEN Head(f).s ELSE t)

(* The scan loop of src/standalone-printer/print.py: the first parsable    *)
(* value ends the loop (break).                                            *)
RECURSIVE ScanFirst(_, _)
ScanFirst(f, t) ==
    IF f = <<>> THEN t
    ELSE IF Parsable(Head(f)) THEN Head(f).s ELSE ScanFirst(Tail(f), t)

(* The files the workflows are run on. *)
GcodeFiles ==
    { <<Line("skip", "absent", 0), Line("other", "absent", 0)>>,
      <<Line("M104", "ok", 203), Line("other", "absent", 0), Line("M104", "ok", 0)>> }

(* test_print_with_api.py scans its file as the standalone script does;   *)
(* the rest of that script is the printFile() call of the driver.         *)
TestApi == "src/test_print_with_api.py"

(* print_direct.py: its scan has the threshold of src/src/print.py. *)
PrintDirect == "src/print_direct.py"

ScanOf(s, f) ==
    CASE s \in {SrcPrint, Calibrate, PrintDirect} -> ScanThreshold(f, DefaultTemp)
      [] s = RootPrint       -> ScanLast(f, DefaultTemp)
      [] s \in {StandalonePrint, TestApi} -> ScanFirst(f, DefaultTemp)

(* with open(gcode_file, 'r') as f: ... ; open() raises when the file      *)
(* cannot be read, and nothing catches it.                                 *)
Scan ==
    /\ pc = "scan"
    /\ \/ /\ Crash
          /\ UNCHANGED target_temp
       \/ /\ \E f \in GcodeFiles : target_temp' = ScanOf(script, f)
          /\ pc' = IF script = StandalonePrint THEN "heat_start" ELSE "transfer_start"
          /\ UNCHANGED exit_code
    /\ UNCHANGED <<script, sendVars, ioVars, cmd, mode, status, trace, printed, elapsed, i,
                   heatVars, devVars, basename, file_list, sd_filename, is_printing>>

-----------------------------------------------------------------------------
(* Device file names (Filename Sanitizer).  A name is a sequence of        *)
(* one-character strings.                                                  *)

Lower  == {"a", "b", "c", "d", "e", "g", "o", "p", "r", "i", "n", "t"}
Upper  == {"A", "B", "C", "D", "E", "G", "O", "P", "R", "I", "N", "T"}
Digits == {"0", "1", "2", "3", "4", "5", "6", "7", "8", "9"}

(* The characters str.replace() removes in the standalone script. *)
Replaced == {".", " ", "-", "_"}

(* Other characters that are neither letters nor digits. *)
OtherSymbols == {"+"}

IsDigit(c) == c \in Digits

(* What [\W_] does not match: the ASCII letters and digits. *)
IsAlnum(c) == c \in Lower \cup Upper \cup Digits

Min(a, b) == IF a < b THEN a ELSE b

(* s[lo:hi] of Python, for 0 <= lo <= hi. *)
Slice(s, lo, hi) == SubSeq(s, lo + 1, Min(hi, Len(s)))

(* re.sub('[\W_]+', '', s): the letters and digits of s, in order. *)
RECURSIVE StripNonAlnum(_)
StripNonAlnum(s) ==
    IF s = <<>> THEN <<>>
    ELSE IF IsAlnum(Head(s)) THEN <<Head(s)>> \o StripNonAlnum(Tail(s))
         ELSE StripNonAlnum(Tail(s))

(* s.replace('.', '').replace(' ', '').replace('-', '').replace('_', '') *)
RECURSIVE StripReplaced(_)
StripReplaced(s) ==
    IF s = <<>> THEN <<>>
    ELSE IF Head(s) \in Replaced THEN StripReplaced(Tail(s))
         ELSE <<Head(s)>> \o StripReplaced(Tail(s))

(* The length above which src/print.py truncates, and what it keeps. *)
TruncateAbove == 8

KeepChars == 7

(* sd_filename of src/print.py, before the case transform. *)
(* SdFilename with the leading digit dropped and no letter put in its place. *)
SdFilenameNoFiller(name) ==
    LET stripped  == StripNonAlnum(name)
        truncated == IF Len(stripped) > TruncateAbove
                       THEN Slice(stripped, 0, KeepChars) ELSE stripped
    IN  IF truncated # <<>> /\ IsDigit(truncated[1])
          THEN Slice(truncated, 1, 7)
          ELSE truncated

SdFilename(name) ==
    LET stripped  == StripNonAlnum(name)
        truncated == IF Len(stripped) > TruncateAbove
                       THEN Slice(stripped, 0, KeepChars) ELSE stripped
    IN  IF truncated # <<>> /\ IsDigit(truncated[1])
          THEN <<"a">> \o Slice(truncated, 1, 7)
          ELSE truncated

(* How many leading characters the standalone script looks at. *)
StandaloneTake == 8

(* sd_name of src/standalone-printer/print.py. *)
SdName(name) ==
    LET stripped == StripReplaced(Slice(name, 0, StandaloneTake))
    IN  IF stripped = <<>> THEN <<"P", "R", "I", "N", "T">>
        ELSE IF IsDigit(stripped[1]) THEN <<"P">> \o Slice(stripped, 1, 8)
        ELSE stripped

UpperOf(c) ==
    CASE c = "a" -> "A" [] c = "b" -> "B" [] c = "c" -> "C" [] c = "d" -> "D"
      [] c = "e" -> "E" [] c = "g" -> "G" [] c = "o" -> "O" [] c = "p" -> "P"
      [] c = "r" -> "R" [] c = "i" -> "I" [] c = "n" -> "N" [] c = "t" -> "T"
      [] OTHER -> c

LowerOf(c) ==
    CASE c = "A" -> "a" [] c = "B" -> "b" [] c = "C" -> "c" [] c = "D" -> "d"
      [] c = "E" -> "e" [] c = "G" -> "g" [] c = "O" -> "o" [] c = "P" -> "p"
      [] c = "R" -> "r" [] c = "I" -> "i" [] c = "N" -> "n" [] c = "T" -> "t"
      [] OTHER -> c

(* str.upper() and str.lower() *)
ToUpper(s) == [k \in 1..Len(s) |-> UpperOf(s[k])]
ToLower(s) == [k \in 1..Len(s) |-> LowerOf(s[k])]

-----------------------------------------------------------------------------
(* Device responses.  A response is None or a sequence of one-character    *)
(* strings.                                                                *)

RespOk     == <<"o", "k">>
RespEmpty  == <<>>
RespVars   == <<"A", "1", " ", "B", "2", " ", "C", "3", " ", "D", "4">>
RespLines  == <<"C", "3">>
RespEstimate == <<"A", "1">>
RespS5     == <<"s", ":", "5">>
RespS3     == <<"s", ":", "3">>
RespError  == <<"E", "r", "r", "o", "r">>

(* `sub in text` of Python, for strings. *)
Contains(text, sub) ==
    \E k \in 0..(Len(text) - Len(sub)) : SubSeq(text, k + 1, k + Len(sub)) = sub

(* `if response` : None and '' are false. *)
Truthy(r) == r # NoResponse /\ r # <<>>

(* response and ('A' in response or 'B' in response or 'D' in response) *)
M32Confirms(r) ==
    /\ Truthy(r)
    /\ \/ Contains(r, <<"A">>)
       \/ Contains(r, <<"B">>)
       \/ Contains(r, <<"D">>)

(* status_response and 's:5' in status_response *)
M625Confirms(sr) ==
    /\ Truthy(sr)
    /\ Contains(sr, <<"s", ":", "5">>)

(* str.lower() on a response, for the letters of the responses above. *)
RespLowerOf(c) == IF c = "E" THEN "e" ELSE LowerOf(c)

(* 'error' in response.lower() *)
HasError(r) ==
    Contains([k \in 1..Len(r) |-> RespLowerOf(r[k])],
             <<"e", "r", "r", "o", "r">>)

M32Responses  == {NoResponse, RespEmpty, RespOk, RespVars, RespLines, RespEstimate}
M625Responses == {NoResponse, RespOk, RespS3, RespS5}
M23Responses  == {NoResponse, RespOk, RespError}

-----------------------------------------------------------------------------
(* File transfer (Transfer Monitor). *)

(* Host file names the workflows are run on. *)
HostNames ==
    { <<"c", "a", "g", "e", ".", "g", "c", "o", "d", "e">>,
      <<"1", "2", "-", "a", ".", "g", "c", "o", "d", "e">>,
      <<"_", ".", "-">> }

FixedName == <<"A", "B", "C", "D", "E">>

(* Iteration counts of the loops that have no bound of their own are kept  *)
(* modulo PollWrap.                                                        *)
PollWrap == 3

(* Scripts whose transfer wait is `while cmd.isTransferring():`. *)
WaitsUnbounded == {SrcPrint, RootPrint, Calibrate}

(* The loop locals are not read after their loop: they are back at their   *)
(* initial values once the next stage starts.                              *)
(* getNozzleTemperature() is None. *)
NoTemp == -1000

HeatReset ==
    /\ current_temp' = NoTemp
    /\ last_reported_temp' = -999
    /\ samples' = 0

(* cmd.transferSDFile(...), or the FileTransferThread of src/print.py. *)
TransferStart ==
    /\ pc = "transfer_start"
    /\ IF script = RootPrint
         THEN \E b \in HostNames :
                /\ basename' = b
                /\ trace' = Append(trace, EvA("transfer", b))
                /\ UNCHANGED sd_filename
         ELSE IF script = StandalonePrint
           THEN /\ trace' = Append(trace, EvA("transfer", sd_filename))
                /\ UNCHANGED <<basename, sd_filename>>
           ELSE /\ trace' = Append(trace, EvA("transfer", FixedName))
                /\ UNCHANGED <<basename, sd_filename>>
    /\ transferring' = TRUE
    /\ elapsed' = 0
    /\ last_progress' = -1
    /\ pc' = "transfer_wait"
    /\ UNCHANGED <<script, sendVars, gcode_lines, respVars, rejected, exit_code, cmd, mode,
                   status, printed, i, dev,
                   heatVars, target_temp, file_list, is_printing>>

AfterTransfer(s) ==
    CASE s = SrcPrint  -> "heat_start"
      [] s = Calibrate -> "heat_start"
      [] s = RootPrint -> "file_list"

(* Scripts whose transfer wait polls getTransferCompletionState(). *)
ShowsProgress == {SrcPrint, RootPrint}

(* The completion percentages a poll may see. *)
Percents == {0, 50, 100}

(* getTransferCompletionState() of one transfer, given the last value it   *)
(* gave.  The transfer thread belongs to the driver; its percentage is     *)
(* taken not to go down while the transfer runs.                           *)
ProgressAnswers(last) == {q \in Percents : q >= last}

(* while cmd.isTransferring(): ... time.sleep(..), with                    *)
(* progress = cmd.getTransferCompletionState() in the body: a value that   *)
(* is not None and differs from the last one printed is printed and kept.  *)
(* progress = last_progress stands for None and for an unchanged value.    *)
TransferPoll ==
    /\ pc = "transfer_wait"
    /\ script \in WaitsUnbounded
    /\ \E still \in (IF transferring THEN BOOLEAN ELSE {FALSE}) :
         /\ transferring' = still
         /\ IF still
              THEN /\ elapsed' = (elapsed + 1) % PollWrap
                   /\ \E progress \in {last_progress} \cup ProgressAnswers(last_progress) :
                        last_progress' = IF script \in ShowsProgress THEN progress
                                                                     ELSE last_progress
                   /\ UNCHANGED <<pc, printed>>
              ELSE /\ elapsed' = 0
                   /\ pc' = AfterTransfer(script)
                   /\ printed' = printed \cup {"Transfer complete"}
                   /\ UNCHANGED last_progress
    /\ UNCHANGED <<script, sendVars, gcode_lines, respVars, rejected, exit_code, cmd, mode,
                   status, trace, i, dev, heatVars, jobVars>>

(* max_wait of the standalone transfer wait, and its sleep. *)
TransferMaxWait == 300

TransferSleep == 2

(* while elapsed < max_wait: if cmd.isTransferring(): sleep; elapsed += 2   *)
(* else: break                                                             *)
TransferWaitBounded ==
    /\ pc = "transfer_wait"
    /\ script = StandalonePrint
    /\ IF elapsed < TransferMaxWait
         THEN \E still \in (IF transferring THEN BOOLEAN ELSE {FALSE}) :
                /\ transferring' = still
                /\ IF still
                     THEN /\ elapsed' = elapsed + TransferSleep
                          /\ UNCHANGED pc
                     ELSE /\ pc' = "transfer_check"
                          /\ UNCHANGED elapsed
         ELSE /\ pc' = "transfer_check"
              /\ UNCHANGED <<elapsed, transferring>>
    /\ UNCHANGED <<script, sendVars, ioVars, exit_code, cmd, mode, status, trace, printed, i, dev,
                   heatVars, jobVars>>

(* if cmd.isTransferring(): WARNING ... else: "Transfer complete!" *)
TransferCheck ==
    /\ pc = "transfer_check"
    /\ \E still \in (IF transferring THEN BOOLEAN ELSE {FALSE}) :
         /\ transferring' = still
         /\ printed' = printed \cup
               {IF still THEN "WARNING: Transfer still in progress" ELSE "Transfer complete"}
    /\ elapsed' = 0
    /\ pc' = "start_print"
    /\ UNCHANGED <<script, sendVars, ioVars, exit_code, cmd, mode, status, trace, i, dev,
                   heatVars, jobVars>>

-----------------------------------------------------------------------------
(* Heating (Heating Coordinator). *)

(* getNozzleTemperature() answers: absent, or a temperature. *)
TempSamples == {NoTemp, 193, 198, 204, 205}

(* max_wait = 300 and time.sleep(2) of the heating loops. *)
max_wait == 300

HeatSleep == 2

(* "Within 2 degrees", and the reporting step. *)
HeatTolerance == 2

ReportDelta == 5

Abs(x) == IF x < 0 THEN -x ELSE x

(* The completion test without its tolerance. *)
ReachedExact(temp, target) == temp >= target

(* if current_temp >= target_temp - 2 *)
Reached(temp, target) == temp >= target - HeatTolerance

(* The reporting test with a strict comparison. *)
ReportsAbove(temp, last) == Abs(temp - last) > ReportDelta

(* if abs(current_temp - last_reported_temp) >= 5 *)
Reports(temp, last) == Abs(temp - last) >= ReportDelta

(* Scripts whose heating loop is `while time.time() - start_time < max_wait`. *)
HeatsWithTimeout == {SrcPrint, RootPrint, RootUnload}

HeatCommand(s) == IF s = RootPrint THEN "M703" ELSE "M104"

AfterHeat(s) ==
    CASE s = SrcPrint        -> "init_sd"
      [] s = Calibrate       -> "init_sd"
      [] s = RootPrint       -> "derive"
      [] s = StandalonePrint -> "derive"
      [] s = RootUnload      -> "retract"

(* What the standalone script adds to the scanned temperature. *)
HeatMargin == 5

(* The temperature load.py and the unload scripts heat to. *)
LoadTemp == 215

(* cmd.sendCmd('M104 S..') / 'M703 S..', once, before the loop.  The       *)
(* standalone script calls response.strip() on the answer unguarded;       *)
(* src/unload.py sets target_temp = 215 first.                             *)
HeatStart ==
    /\ pc = "heat_start"
    /\ script \in HeatsWithTimeout \cup {Calibrate, StandalonePrint}
    /\ target_temp' = IF script = RootUnload THEN LoadTemp ELSE target_temp
    /\ trace' = Append(trace,
                  EvA(HeatCommand(script),
                      IF script = StandalonePrint THEN target_temp + HeatMargin
                                                  ELSE target_temp'))
    /\ \E r \in {RespOk, NoResponse} :
         IF script = StandalonePrint /\ r = NoResponse
           THEN /\ Crash
                /\ UNCHANGED <<elapsed, i, heatVars>>
           ELSE /\ pc' = "heat_wait"
                /\ elapsed' = 0
                /\ i' = 0
                /\ current_temp' = IF script = StandalonePrint THEN 0 ELSE NoTemp
                /\ last_reported_temp' = IF script = Calibrate THEN 0 ELSE -999
                /\ samples' = 0
                /\ UNCHANGED exit_code
    /\ last_progress' = -1
    /\ UNCHANGED <<script, sendVars, gcode_lines, respVars, rejected, cmd, mode, status,
                   printed, devVars, basename, file_list, sd_filename, is_printing>>

(* One iteration of the heating loop of src/src/print.py and src/print.py: *)
(* sample, report when the change is large enough, stop when the target   *)
(* is reached, else sleep.  time.time() - start_time is counted in sleeps: *)
(* the time the calls themselves take is left out.                         *)
HeatPoll ==
    /\ pc = "heat_wait"
    /\ script \in HeatsWithTimeout
    /\ elapsed < max_wait
    /\ \E t \in TempSamples :
         /\ current_temp' = t
         /\ samples' = samples + 1
         /\ IF t # NoTemp /\ Reports(t, last_reported_temp)
              THEN last_reported_temp' = t
              ELSE UNCHANGED last_reported_temp
         /\ IF t # NoTemp /\ Reached(t, target_temp)
              THEN /\ printed' = printed \cup {"Target temperature reached"}
                   /\ pc' = AfterHeat(script)
                   /\ UNCHANGED elapsed
              ELSE /\ elapsed' = elapsed + HeatSleep
                   /\ UNCHANGED <<pc, printed>>
    /\ UNCHANGED <<script, sendVars, ioVars, exit_code, cmd, mode, status, trace, i, devVars, jobVars>>

(* The loop condition fails: max_wait seconds have passed. *)
HeatTimeout ==
    /\ pc = "heat_wait"
    /\ script \in HeatsWithTimeout
    /\ elapsed >= max_wait
    /\ pc' = AfterHeat(script)
    /\ UNCHANGED <<script, sendVars, ioVars, exit_code, cmd, mode, status, trace, printed, elapsed, i,
                   heatVars, devVars, jobVars>>

(* run_test_print of calibrate.py: `while True:` with the same body. *)
HeatPollUnbounded ==
    /\ pc = "heat_wait"
    /\ script = Calibrate
    /\ \E t \in TempSamples :
         /\ current_temp' = t
         /\ samples' = (samples + 1) % PollWrap
         /\ IF t # NoTemp /\ Reports(t, last_reported_temp)
              THEN last_reported_temp' = t
              ELSE UNCHANGED last_reported_temp
         /\ IF t # NoTemp /\ Reached(t, target_temp)
              THEN /\ printed' = printed \cup {"Target temperature reached"}
                   /\ pc' = AfterHeat(script)
              ELSE UNCHANGED <<pc, printed>>
    /\ UNCHANGED <<script, sendVars, ioVars, exit_code, cmd, mode, status, trace, elapsed, i,
                   devVars, jobVars>>

(* range(300) of the standalone heating loop, and `if i % 5 == 0`. *)
StandaloneHeatIters == 300

StandaloneReportEvery == 5

(* One iteration of the standalone heating loop.  The script is Python 2:  *)
(* None >= heat_temp is False, and formatting None with {:.1f} raises.     *)
StandaloneHeatPoll ==
    /\ pc = "heat_wait"
    /\ script = StandalonePrint
    /\ i < StandaloneHeatIters
    /\ \E t \in TempSamples :
         /\ current_temp' = t
         /\ samples' = samples + 1
         /\ IF i % StandaloneReportEvery = 0 /\ t = NoTemp
              THEN /\ Crash
                   /\ UNCHANGED <<i, printed>>
              ELSE IF t # NoTemp /\ t >= target_temp + HeatMargin
                THEN /\ printed' = printed \cup {"Target temperature reached"}
                     /\ pc' = "heat_end"
                     /\ UNCHANGED <<i, exit_code>>
                ELSE /\ i' = i + 1
                     /\ UNCHANGED <<pc, printed, exit_code>>
    /\ UNCHANGED <<script, sendVars, ioVars, cmd, mode, status, trace, elapsed, last_reported_temp,
                   devVars, jobVars>>

(* range(300) is exhausted. *)
StandaloneHeatTimeout ==
    /\ pc = "heat_wait"
    /\ script = StandalonePrint
    /\ i >= StandaloneHeatIters
    /\ pc' = "heat_end"
    /\ UNCHANGED <<script, sendVars, ioVars, exit_code, cmd, mode, status, trace, printed, elapsed, i,
                   heatVars, devVars, jobVars>>

(* if current_temp < heat_temp: print("WARNING: Only reached {:.1f}C ..")  *)
(* (None < heat_temp is True in Python 2, and the format then raises).     *)
StandaloneHeatEnd ==
    /\ pc = "heat_end"
    /\ IF current_temp = NoTemp
         THEN /\ Crash
              /\ UNCHANGED printed
         ELSE /\ pc' = AfterHeat(script)
              /\ printed' = IF current_temp < target_temp + HeatMargin
                              THEN printed \cup {"WARNING: Only reached"}
                              ELSE printed
              /\ UNCHANGED exit_code
    /\ UNCHANGED <<script, sendVars, ioVars, cmd, mode, status, trace, elapsed, i,
                   heatVars, devVars, jobVars>>

-----------------------------------------------------------------------------
(* Print start of src/src/print.py and of run_test_print (Print Start      *)
(* Sequencer).                                                              *)

(* The device answers command c with r.  src/src/print.py keeps the answer *)
(* in `response`; run_test_print of calibrate.py discards it.  rejected    *)
(* records the commands answered with an error indication.                *)
Answer(c, r) ==
    /\ response' = IF script = SrcPrint THEN r ELSE response
    /\ rejected' = IF HasError(r) THEN rejected \cup {c} ELSE rejected

abcde == <<"a", "b", "c", "d", "e">>

(* cmd.sendCmd('M21\n'), the first command after the heating loop. *)
InitSd ==
    /\ pc = "init_sd"
    /\ trace' = Append(trace, Ev("M21"))
    /\ \E r \in M23Responses : Answer("M21", r)
    /\ pc' = "select_file"
    /\ elapsed' = 0
    /\ HeatReset
    /\ UNCHANGED <<script, sendVars, gcode_lines, status_response, last_progress, exit_code,
                   cmd, mode, status, printed, i, devVars, jobVars>>

(* response = cmd.sendCmd('M23 abcde\n'); src/src/print.py then tests      *)
(* 'error' in response.lower(), which raises when response is None;        *)
(* run_test_print ignores the response.                                    *)
SelectFile ==
    /\ pc = "select_file"
    /\ trace' = Append(trace, EvA("M23", abcde))
    /\ \E r \in M23Responses :
         /\ Answer("M23", r)
         /\ IF script = SrcPrint /\ r = NoResponse
              THEN /\ Crash
                   /\ UNCHANGED printed
              ELSE IF script = SrcPrint /\ HasError(r)
                THEN /\ Exit(1)
                     /\ printed' = printed \cup {"ERROR: M23 failed"}
                ELSE /\ pc' = "start_m33"
                     /\ UNCHANGED <<exit_code, printed>>
    /\ UNCHANGED <<script, sendVars, gcode_lines, status_response, last_progress, cmd, mode,
                   status, elapsed, i, heatVars, devVars, jobVars>>

(* One round short: range(5). *)
ProbeRoundsShort == 6 - 1

(* The number of probe rounds: for i in range(6). *)
ProbeRounds == 6

(* cmd.sendCmd('M33\n'); run_test_print ends here. *)
StartM33 ==
    /\ pc = "start_m33"
    /\ trace' = Append(trace, Ev("M33"))
    /\ \E r \in M23Responses : Answer("M33", r)
    /\ i' = 0
    /\ is_printing' = FALSE
    /\ IF script = Calibrate
         THEN /\ Exit(0)
              /\ printed' = printed \cup {"Print started"}
         ELSE /\ pc' = "probe"
              /\ UNCHANGED <<exit_code, printed>>
    /\ UNCHANGED <<script, sendVars, gcode_lines, status_response, last_progress, cmd, mode,
                   status, elapsed, heatVars, devVars,
                   target_temp, basename, file_list, sd_filename>>

(* One round of the confirmation loop: M32, and M625 when M32 did not      *)
(* confirm.                                                                *)
ProbeRound ==
    /\ pc = "probe"
    /\ i < ProbeRounds
    /\ \E r \in M32Responses, sr \in M625Responses :
         /\ response' = r
         /\ IF M32Confirms(r)
              THEN /\ trace' = Append(trace, Ev("M32"))
                   /\ is_printing' = TRUE
                   /\ pc' = "probe_done"
                   /\ UNCHANGED <<i, status_response>>
              ELSE /\ trace' = trace \o <<Ev("M32"), Ev("M625")>>
                   /\ status_response' = sr
                   /\ IF M625Confirms(sr)
                        THEN /\ is_printing' = TRUE
                             /\ pc' = "probe_done"
                             /\ UNCHANGED i
                        ELSE /\ i' = i + 1
                             /\ UNCHANGED <<is_printing, pc>>
    /\ UNCHANGED <<script, sendVars, gcode_lines, last_progress, rejected, exit_code, cmd, mode,
                   status, printed, elapsed,
                   heatVars, devVars, target_temp, basename, file_list, sd_filename>>

(* range(6) is exhausted. *)
ProbeExhausted ==
    /\ pc = "probe"
    /\ i >= ProbeRounds
    /\ pc' = "probe_done"
    /\ UNCHANGED <<script, sendVars, ioVars, exit_code, cmd, mode, status, trace, printed, elapsed, i,
                   heatVars, devVars, jobVars>>

(* The report that gives up on an unconfirmed start: it closes the         *)
(* connection and ends with status 1.                                      *)
ProbeReportFatal ==
    /\ pc = "probe_done"
    /\ printed' = printed \cup
          (IF is_printing THEN {"PRINT STARTED"}
                          ELSE {"WARNING: Print status unclear"})
    /\ IF is_printing
         THEN /\ pc' = "monitor"
              /\ UNCHANGED <<exit_code, trace>>
         ELSE /\ Exit(1)
              /\ trace' = Append(trace, Ev("close"))
    /\ response' = NoResponse
    /\ status_response' = NoResponse
    /\ UNCHANGED <<script, sendVars, gcode_lines, last_progress, rejected, cmd, mode,
                   status, elapsed, i, heatVars, devVars, jobVars>>

(* if not is_printing: WARNING ...; then "PRINT STARTED!" or               *)
(* "WAITING FOR PRINT...".  The answers of the loop are not read again.    *)
ProbeReport ==
    /\ pc = "probe_done"
    /\ printed' = printed \cup
          (IF is_printing THEN {"PRINT STARTED"}
                          ELSE {"WARNING: Print status unclear", "WAITING FOR PRINT"})
    /\ pc' = "monitor"
    /\ response' = NoResponse
    /\ status_response' = NoResponse
    /\ UNCHANGED <<script, sendVars, gcode_lines, last_progress, rejected, exit_code, cmd, mode,
                   status, trace, elapsed, i, heatVars, devVars, jobVars>>

-----------------------------------------------------------------------------
(* Print start of src/print.py: SD file matching and M32. *)

OtherFile == <<"O", "T", "B">>

(* The directory listings the device may give: none, and lists without    *)
(* and with a file named after "cage.gcode", in full, cut to 6, or both.  *)
FileLists ==
    { NoList,
      <<OtherFile>>,
      <<OtherFile, <<"C", "A", "G", "E", "G", "C", "O">> >>,
      <<OtherFile, <<"C", "A", "G", "E", "G", "C">> >>,
      << <<"C", "A", "G", "E", "G", "C">>, <<"C", "A", "G", "E", "G", "C", "O">> >> }

(* file_list = cmd.getFileList(), after the transfer. *)
GetFileList ==
    /\ pc = "file_list"
    /\ \E fl \in FileLists : file_list' = fl
    /\ trace' = Append(trace, Ev("getFileList"))
    /\ pc' = "heat_start"
    /\ last_progress' = -1
    /\ UNCHANGED <<script, sendVars, gcode_lines, respVars, rejected, exit_code, cmd, mode, status, printed, elapsed, i,
                   heatVars, devVars, target_temp, basename, sd_filename, is_printing>>

(* f.startswith(p) *)
StartsWith(f, p) == Len(f) >= Len(p) /\ SubSeq(f, 1, Len(p)) = p

InList(x, l) == \E k \in 1..Len(l) : l[k] = x

(* for f in file_list['FileNames']: if f.startswith(prefix): ...; break *)
RECURSIVE FirstMatch(_, _)
FirstMatch(l, prefix) ==
    IF l = <<>> THEN NoResponse
    ELSE IF StartsWith(Head(l), prefix) THEN Head(l)
         ELSE FirstMatch(Tail(l), prefix)

(* The length of the prefix used for the partial match. *)
MatchPrefix == 6

(* matched_file without the exact match: the prefix match alone. *)
MatchedFileByPrefix(fl, name) ==
    LET sd_filename_upper == ToUpper(name)
        partial == FirstMatch(fl, Slice(sd_filename_upper, 0, MatchPrefix))
    IN  IF fl = NoList THEN NoResponse
        ELSE IF partial # NoResponse /\ partial # <<>> THEN partial
        ELSE sd_filename_upper

(* matched_file of src/print.py; an empty string counts as no match. *)
MatchedFile(fl, name) ==
    LET sd_filename_upper == ToUpper(name)
        partial == FirstMatch(fl, Slice(sd_filename_upper, 0, MatchPrefix))
    IN  IF fl = NoList THEN NoResponse
        ELSE IF InList(sd_filename_upper, fl) THEN sd_filename_upper
        ELSE IF partial # NoResponse /\ partial # <<>> THEN partial
        ELSE sd_filename_upper

(* sd_filename as sent with M32. *)
UsedName(fl, name) ==
    LET matched_file == MatchedFile(fl, name)
    IN  IF matched_file # NoResponse /\ matched_file # <<>> THEN matched_file
        ELSE ToUpper(name)

(* Step 7 of src/print.py up to the start command. *)
DeriveAndStart ==
    /\ pc = "derive"
    /\ script = RootPrint
    /\ sd_filename' = UsedName(file_list, SdFilename(basename))
    /\ trace' = Append(trace, EvA("M32", sd_filename'))
    /\ pc' = "verify"
    /\ elapsed' = 0
    /\ HeatReset
    /\ UNCHANGED <<script, sendVars, ioVars, exit_code, cmd, mode, status, printed, i, devVars,
                   target_temp, basename, file_list, is_printing>>

(* is_printing = cmd.isPrinting(); status = cmd.getStatus() and the        *)
(* messages that follow.                                                   *)
Verify ==
    /\ pc = "verify"
    /\ \E p \in BOOLEAN, st \in Statuses :
         /\ is_printing' = p
         /\ status' = st
         /\ printed' = printed \cup
               (IF p THEN {"PRINT STARTED"}
                     ELSE {"WARNING: not printing", "WAITING FOR PRINT"})
    /\ trace' = trace \o <<Ev("isPrinting"), Ev("getStatus")>>
    /\ pc' = "monitor"
    /\ UNCHANGED <<script, sendVars, ioVars, exit_code, cmd, mode, elapsed, i, heatVars, devVars,
                   target_temp, basename, file_list, sd_filename>>

-----------------------------------------------------------------------------
(* Standalone script: name derivation and M33. *)

(* sd_name = ..., the first statement after the heating loop. *)
DeriveSdName ==
    /\ pc = "derive"
    /\ script = StandalonePrint
    /\ \E b \in HostNames :
         /\ basename' = b
         /\ sd_filename' = SdName(b)
    /\ pc' = "transfer_start"
    /\ elapsed' = 0
    /\ i' = 0
    /\ HeatReset
    /\ UNCHANGED <<script, sendVars, ioVars, exit_code, cmd, mode, status, trace, printed, devVars,
                   target_temp, file_list, is_printing>>

(* response = cmd.sendCmd("M33 <sd_name>"); response.strip() is unguarded. *)
StartPrint ==
    /\ pc = "start_print"
    /\ trace' = Append(trace, EvA("M33", sd_filename))
    /\ \E r \in {NoResponse, RespOk} :
         IF r = NoResponse
           THEN /\ Crash
                /\ UNCHANGED printed
           ELSE /\ pc' = "monitor"
                /\ printed' = printed \cup {"PRINT STARTED"}
                /\ UNCHANGED exit_code
    /\ UNCHANGED <<script, sendVars, ioVars, cmd, mode, status, elapsed, i, heatVars, devVars, jobVars>>

-----------------------------------------------------------------------------
(* Status monitoring and close. *)

(* A monitoring pass that turns the heater off when it is interrupted. *)
MonitorPollCooling ==
    /\ pc = "monitor"
    /\ \E what \in {"go_on", "finished", "error", "interrupt"} :
         /\ pc' = IF what = "go_on" \/ (what = "error" /\ script # SrcPrint)
                    THEN "monitor" ELSE "close"
         /\ trace' = IF what = "interrupt" THEN Append(trace, EvA("M104", 0)) ELSE trace
         /\ printed' = printed \cup
               (CASE what = "error"     -> {"Error reading status"}
                  [] what = "interrupt" -> {"Monitoring stopped by user"}
                  [] what = "finished"  -> {"Print finished"}
                  [] OTHER              -> {})
    /\ UNCHANGED <<script, sendVars, ioVars, exit_code, cmd, mode, status, elapsed, i,
                   heatVars, devVars, jobVars>>

(* One pass of the monitoring loop.  what = "error": a poll raises;        *)
(* "interrupt": KeyboardInterrupt; "finished": the exit test of the loop   *)
(* holds; "go_on": it does not.  src/src/print.py leaves the loop on an    *)
(* error, the other two scripts print it and poll again.                   *)
MonitorPoll ==
    /\ pc = "monitor"
    /\ \E what \in {"go_on", "finished", "error", "interrupt"} :
         /\ pc' = IF what = "go_on" \/ (what = "error" /\ script # SrcPrint)
                    THEN "monitor" ELSE "close"
         /\ printed' = printed \cup
               (CASE what = "error"     -> {"Error reading status"}
                  [] what = "interrupt" -> {"Monitoring stopped by user"}
                  [] what = "finished"  -> {"Print finished"}
                  [] OTHER              -> {})
    /\ UNCHANGED <<script, sendVars, ioVars, exit_code, cmd, mode, status, trace, elapsed, i,
                   heatVars, devVars, jobVars>>

(* re.search(r'X(\d+)', response): the answer has the field X. *)
HasField(r, x) == \E k \in 1..(Len(r) - 1) : r[k] = x /\ IsDigit(r[k + 1])

(* One pass of the loop of monitor.py.  what = "poll": the three polls     *)
(* answer; "error": one of them raises; "interrupt": KeyboardInterrupt.    *)
(* is_printing is taken from the 'M625' answer alone.  With an estimated   *)
(* time (A) and no elapsed time (B) while printing,                        *)
(* estimated_time * 60 - elapsed_time raises.  The loop has no bound: its  *)
(* polls are not added to trace.                                           *)
MonitorPass ==
    /\ pc = "monitor_pass"
    /\ \E what \in {"poll", "error", "interrupt"} :
         CASE what = "interrupt" ->
                /\ Exit(0)
                /\ printed' = printed \cup {"Monitor stopped by user"}
                /\ UNCHANGED <<respVars, is_printing>>
           [] what = "error" ->
                /\ Exit(1)
                /\ printed' = printed \cup {"ERROR"}
                /\ UNCHANGED <<respVars, is_printing>>
           [] what = "poll" ->
                \E r \in M32Responses, sr \in M625Responses :
                  /\ response' = r
                  /\ status_response' = sr
                  /\ is_printing' = M625Confirms(sr)
                  /\ IF /\ Truthy(r) /\ HasField(r, "A") /\ ~HasField(r, "B")
                        /\ M625Confirms(sr)
                       THEN /\ Exit(1)
                            /\ printed' = printed \cup {"ERROR"}
                       ELSE /\ printed' = printed \cup
                                 {IF M625Confirms(sr) THEN "PRINTING" ELSE "IDLE/READY"}
                            /\ UNCHANGED <<pc, exit_code>>
    /\ UNCHANGED <<script, sendVars, gcode_lines, last_progress, rejected, cmd, mode, status,
                   trace, elapsed, i, heatVars, devVars, target_temp, basename,
                   file_list, sd_filename>>

(* c.close() and the end of the script. *)
Close ==
    /\ pc = "close"
    /\ trace' = Append(trace, Ev("close"))
    /\ pc' = "done"
    /\ exit_code' = 0
    /\ UNCHANGED <<script, sendVars, ioVars, cmd, mode, status, printed, elapsed, i,
                   heatVars, devVars, jobVars>>

-----------------------------------------------------------------------------
(* print_test_m23m24.py: the three start dialects, tried in order. *)

(* The device as this script sees it: honours is the dialect after which   *)
(* it starts printing (0: none), printing is what isPrinting() answers,    *)
(* and an erratic device answers isPrinting() arbitrarily.                 *)
Devices ==
    [honours : 0..3, erratic : {FALSE}, printing : {FALSE}] \cup
    [honours : {0}, erratic : {TRUE}, printing : {FALSE}]

NoDevice == [honours |-> 0, erratic |-> FALSE, printing |-> FALSE]

(* cmd.isPrinting() answers of the device. *)
IsPrintingAnswers(d) == IF d.erratic THEN BOOLEAN ELSE {d.printing}

(* The device after the last command of dialect n. *)
AfterDialect(d, n) == [d EXCEPT !.printing = d.printing \/ (d.honours = n)]

(* print("Current status:", cmd.getStatus()); print("Files on SD:", ..) *)
TestStatus ==
    /\ pc = "test_status"
    /\ trace' = trace \o <<Ev("getStatus"), Ev("getFileList")>>
    /\ sd_filename' = ToUpper(abcde)
    /\ pc' = "test1"
    /\ UNCHANGED <<script, sendVars, ioVars, exit_code, cmd, mode, status, printed, elapsed, i,
                   heatVars, devVars, target_temp, basename, file_list, is_printing>>

(* [Test 1] M33 <name>, sleep, getStatus(), print(cmd.isPrinting()) *)
Test1 ==
    /\ pc = "test1"
    /\ dev' = AfterDialect(dev, 1)
    /\ \E p \in IsPrintingAnswers(dev') :
         /\ is_printing' = p
         /\ trace' = trace \o <<EvA("M33", sd_filename), Ev("getStatus"),
                                EvA("isPrinting", p)>>
    /\ pc' = "test2_check"
    /\ UNCHANGED <<script, sendVars, ioVars, exit_code, cmd, mode, status, printed, elapsed, i,
                   heatVars, transferring, target_temp, basename, file_list,
                   sd_filename>>

(* if not cmd.isPrinting(): [Test 2] *)
Test2Check ==
    /\ pc = "test2_check"
    /\ \E p \in IsPrintingAnswers(dev) :
         /\ is_printing' = p
         /\ trace' = Append(trace, EvA("isPrinting", p))
         /\ pc' = IF p THEN "test3_check" ELSE "test2"
    /\ UNCHANGED <<script, sendVars, ioVars, exit_code, cmd, mode, status, printed, elapsed, i,
                   heatVars, devVars, target_temp, basename, file_list, sd_filename>>

(* M23 <name>, M24, sleep, getStatus(), print(cmd.isPrinting()) *)
Test2 ==
    /\ pc = "test2"
    /\ dev' = AfterDialect(dev, 2)
    /\ \E p \in IsPrintingAnswers(dev') :
         /\ is_printing' = p
         /\ trace' = trace \o <<EvA("M23", sd_filename), Ev("M24"), Ev("getStatus"),
                                EvA("isPrinting", p)>>
    /\ pc' = "test3_check"
    /\ UNCHANGED <<script, sendVars, ioVars, exit_code, cmd, mode, status, printed, elapsed, i,
                   heatVars, transferring, target_temp, basename, file_list,
                   sd_filename>>

(* [Test 3] without its `if not cmd.isPrinting()`: the third dialect is    *)
(* tried whatever the device answers.                                      *)
Test3Unguarded ==
    /\ pc = "test3_check"
    /\ \E p \in IsPrintingAnswers(dev) :
         /\ is_printing' = p
         /\ trace' = Append(trace, EvA("isPrinting", p))
         /\ pc' = "test3"
    /\ UNCHANGED <<script, sendVars, ioVars, exit_code, cmd, mode, status, printed, elapsed, i,
                   heatVars, devVars, target_temp, basename, file_list, sd_filename>>

(* if not cmd.isPrinting(): [Test 3] *)
Test3Check ==
    /\ pc = "test3_check"
    /\ \E p \in IsPrintingAnswers(dev) :
         /\ is_printing' = p
         /\ trace' = Append(trace, EvA("isPrinting", p))
         /\ pc' = IF p THEN "close" ELSE "test3"
    /\ UNCHANGED <<script, sendVars, ioVars, exit_code, cmd, mode, status, printed, elapsed, i,
                   heatVars, devVars, target_temp, basename, file_list, sd_filename>>

(* cmd.initSD(), M33 <name>, sleep, getStatus(), print(cmd.isPrinting()) *)
Test3 ==
    /\ pc = "test3"
    /\ dev' = AfterDialect(dev, 3)
    /\ \E p \in IsPrintingAnswers(dev') :
         /\ is_printing' = p
         /\ trace' = trace \o <<Ev("initSD"), EvA("M33", sd_filename), Ev("getStatus"),
                                EvA("isPrinting", p)>>
    /\ pc' = "close"
    /\ UNCHANGED <<script, sendVars, ioVars, exit_code, cmd, mode, status, printed, elapsed, i,
                   heatVars, transferring, target_temp, basename, file_list,
                   sd_filename>>

-----------------------------------------------------------------------------
(* load.py and unload.py. *)

(* cmd.startHeating(215) (blocks), getNozzleTemperature(), then            *)
(* cmd.load() or cmd.unload(); unload.py turns the heater off at the end.  *)
(* Neither script closes the connection.                                   *)
StartHeating ==
    /\ pc = "start_heating"
    /\ trace' = trace \o
          (IF script = Load
             THEN <<EvA("startHeating", LoadTemp), Ev("getNozzleTemperature"), Ev("load")>>
             ELSE <<EvA("startHeating", LoadTemp), Ev("getNozzleTemperature"),
                    Ev("unload"), EvA("M104", 0)>>)
    /\ pc' = "done"
    /\ exit_code' = 0
    /\ UNCHANGED <<script, sendVars, ioVars, cmd, mode, status, printed, elapsed, i,
                   heatVars, devVars, jobVars>>

(* The retraction of src/unload.py: for i in range(10), each step          *)
(* 'G91', 'G1 E-5 F100', 'G90' and a sleep, inside try/except               *)
(* KeyboardInterrupt.  sent is how many commands of the step went out      *)
(* before the user's interrupt; 3: the step was not interrupted.           *)
RetractSteps == 10

RetractStep ==
    /\ pc = "retract"
    /\ i < RetractSteps
    /\ \E sent \in 0..3, interrupted \in BOOLEAN :
         /\ sent < 3 => interrupted
         /\ trace' = trace \o SubSeq(<<Ev("G91"), EvA("G1", -5), Ev("G90")>>, 1, sent)
         /\ i' = IF interrupted THEN i ELSE i + 1
         /\ pc' = IF interrupted \/ i + 1 >= RetractSteps THEN "cool" ELSE "retract"
         /\ printed' = IF interrupted THEN printed \cup {"Retraction stopped by user"}
                        ELSE IF i + 1 >= RetractSteps
                          THEN printed \cup {"Retraction complete"}
                          ELSE printed
    /\ UNCHANGED <<script, sendVars, ioVars, exit_code, cmd, mode, status, elapsed,
                   heatVars, devVars, jobVars>>

(* cmd.sendCmd('M104 S0\n') and the end of src/unload.py. *)
CoolDown ==
    /\ pc = "cool"
    /\ trace' = Append(trace, EvA("M104", 0))
    /\ pc' = "done"
    /\ exit_code' = 0
    /\ UNCHANGED <<script, sendVars, ioVars, cmd, mode, status, printed, elapsed, i,
                   heatVars, devVars, jobVars>>

-----------------------------------------------------------------------------
(* calibrate.py: the wizard, and the optional test print. *)

Keys == {"u", "U", "d", "D", "n", "q"}

(* cmd.sendCmd("G131 S0\n") *)
CalibrateStart ==
    /\ pc = "calibrate"
    /\ trace' = Append(trace, Ev("G131"))
    /\ pc' = "keys"
    /\ UNCHANGED <<script, sendVars, ioVars, exit_code, cmd, mode, status, printed, elapsed, i,
                   heatVars, devVars, jobVars>>

(* One pass of the key loop: a move key sends G0 and loops, 'n' goes on    *)
(* through the three G132 positions, 'q' homes and exits.                  *)
KeyPress ==
    /\ pc = "keys"
    /\ \E key \in Keys :
         CASE key = "n" -> /\ trace' = trace \o <<Ev("G132"), Ev("G132"), Ev("G132")>>
                           /\ pc' = "choice"
                           /\ UNCHANGED exit_code
           [] key = "q" -> /\ trace' = Append(trace, Ev("G28"))
                           /\ Exit(0)
           [] OTHER     -> UNCHANGED <<trace, pc, exit_code>>
    /\ UNCHANGED <<script, sendVars, ioVars, cmd, mode, status, printed, elapsed, i,
                   heatVars, devVars, jobVars>>

(* "Run test print? [y/N]": 'y' runs run_test_print, which returns at once *)
(* when calibration.gcode does not exist; otherwise G28.                   *)
Choice ==
    /\ pc = "choice"
    /\ \E choice \in {"y", "n"}, exists \in BOOLEAN :
         IF choice = "y"
           THEN IF exists
                  THEN /\ pc' = "scan"
                       /\ UNCHANGED <<trace, exit_code, printed>>
                  ELSE /\ pc' = "done"
                       /\ exit_code' = 0
                       /\ printed' = printed \cup {"ERROR: File not found"}
                       /\ UNCHANGED trace
           ELSE /\ trace' = Append(trace, Ev("G28"))
                /\ pc' = "done"
                /\ exit_code' = 0
                /\ UNCHANGED printed
    /\ UNCHANGED <<script, sendVars, ioVars, cmd, mode, status, elapsed, i, heatVars, devVars, jobVars>>

-----------------------------------------------------------------------------
(* The state machine. *)

Init ==
    /\ script \in Scripts
    /\ pc = "begin"
    /\ exit_code = -1
    /\ cmd = 0
    /\ mode = None
    /\ status = None
    /\ trace = <<>>
    /\ printed = {}
    /\ target_temp = DefaultTemp
    /\ transferring = FALSE
    /\ elapsed = 0
    /\ current_temp = NoTemp
    /\ last_reported_temp = -999
    /\ samples = 0
    /\ basename = <<>>
    /\ file_list = NoList
    /\ sd_filename = <<>>
    /\ is_printing = FALSE
    /\ i = 0
    /\ dev \in (IF script = TestM23M24 THEN Devices ELSE {NoDevice})
    /\ gcode_lines = <<>>
    /\ response = NoResponse
    /\ status_response = NoResponse
    /\ last_progress = -1
    /\ rejected = {}
    /\ sent_count = 0
    /\ error_count = 0

Next ==
    \/ FileCheck
    \/ Connect
    \/ UseNone
    \/ ModeCheck
    \/ GoToFirmware
    \/ Settle
    \/ Reconnect
    \/ GetCommandIntf
    \/ StatusCheck
    \/ ClearShutdown
    \/ Scan
    \/ TransferStart
    \/ TransferPoll
    \/ TransferWaitBounded
    \/ TransferCheck
    \/ HeatStart
    \/ HeatPoll
    \/ HeatTimeout
    \/ HeatPollUnbounded
    \/ StandaloneHeatPoll
    \/ StandaloneHeatTimeout
    \/ StandaloneHeatEnd
    \/ InitSd
    \/ SelectFile
    \/ StartM33
    \/ ProbeRound
    \/ ProbeExhausted
    \/ ProbeReport
    \/ GetFileList
    \/ DeriveAndStart
    \/ Verify
    \/ DeriveSdName
    \/ StartPrint
    \/ MonitorPoll
    \/ MonitorPass
    \/ Close
    \/ TestStatus
    \/ Test1
    \/ Test2Check
    \/ Test2
    \/ Test3Check
    \/ Test3
    \/ StartHeating
    \/ RetractStep
    \/ CoolDown
    \/ CalibrateStart
    \/ KeyPress
    \/ Choice

Spec == Init /\ [][Next]_vars

(* A running script always takes its next step: the scripts are            *)
(* sequential programs, and nothing suspends them.                         *)
FairSpec == Spec /\ WF_vars(Next)

-----------------------------------------------------------------------------
(* The name derivations on their own: every host name of 1 to MaxNameLen  *)
(* characters (the name of a file that exists is not empty) over a        *)
(* letter, a digit and a symbol, given to the derivation of src/print.py  *)
(* and to that of the standalone script.                                   *)

MaxNameLen == 9

SanAlphabet == {"a", "1", "-"}

SanNames == UNION {[1..n -> SanAlphabet] : n \in 1..MaxNameLen}

SanInit ==
    /\ script \in {RootPrint, StandalonePrint}
    /\ pc = "sanitize"
    /\ basename \in SanNames
    /\ exit_code = -1
    /\ cmd = 0
    /\ mode = None
    /\ status = None
    /\ trace = <<>>
    /\ printed = {}
    /\ target_temp = DefaultTemp
    /\ transferring = FALSE
    /\ elapsed = 0
    /\ current_temp = NoTemp
    /\ last_reported_temp = -999
    /\ samples = 0
    /\ file_list = NoList
    /\ sd_filename = <<>>
    /\ is_printing = FALSE
    /\ i = 0
    /\ dev = NoDevice
    /\ gcode_lines = <<>>
    /\ response = NoResponse
    /\ status_response = NoResponse
    /\ last_progress = -1
    /\ rejected = {}
    /\ sent_count = 0
    /\ error_count = 0

(* sd_filename = re.sub(..) ... of src/print.py (before .upper()), or      *)
(* sd_name = basename[:8].replace(..) ... of the standalone script.        *)
Sanitize ==
    /\ pc = "sanitize"
    /\ sd_filename' = IF script = RootPrint THEN SdFilename(basename)
                                            ELSE SdName(basename)
    /\ pc' = "sanitized"
    /\ UNCHANGED <<script, sendVars, ioVars, exit_code, cmd, mode, status, trace, printed, elapsed, i,
                   heatVars, devVars, target_temp, basename, file_list, is_printing>>

(* The derivation applied to its own result: the derived name is the file  *)
(* name of a second run.                                                   *)
Resanitize ==
    /\ pc = "sanitized"
    /\ basename' = sd_filename
    /\ sd_filename' = IF script = RootPrint THEN SdFilename(sd_filename)
                                            ELSE SdName(sd_filename)
    /\ pc' = "resanitized"
    /\ UNCHANGED <<script, sendVars, ioVars, exit_code, cmd, mode, status, trace, printed, elapsed, i,
                   heatVars, devVars, target_temp, file_list, is_printing>>

SanNext ==
    \/ Sanitize
    \/ Resanitize

SanSpec == SanInit /\ [][SanNext]_vars

-----------------------------------------------------------------------------
(* The G-code scans as functions of the file: every file of at most        *)
(* MaxScanLen lines over ScanLines, scanned by each script that scans.     *)

MaxScanLen == 3

(* Heater off, the values next to the threshold, two print temperatures,   *)
(* a heating command whose argument does not parse, and a line that is no  *)
(* heating command.                                                        *)
ScanLines ==
    { Line("M104", "ok", 0), Line("M104", "ok", 149), Line("M104", "ok", 150),
      Line("M104", "ok", 203), Line("M109", "ok", 215),
      Line("M104", "bad", 0), Line("other", "absent", 0) }

ScanInit ==
    /\ script \in {SrcPrint, RootPrint, StandalonePrint, TestApi, Calibrate, PrintDirect}
    /\ pc = "scan"
    /\ gcode_lines \in UNION {[1..n -> ScanLines] : n \in 1..MaxScanLen}
    /\ exit_code = -1
    /\ cmd = 0
    /\ mode = None
    /\ status = None
    /\ trace = <<>>
    /\ printed = {}
    /\ target_temp = DefaultTemp
    /\ transferring = FALSE
    /\ elapsed = 0
    /\ current_temp = NoTemp
    /\ last_reported_temp = -999
    /\ samples = 0
    /\ basename = <<>>
    /\ file_list = NoList
    /\ sd_filename = <<>>
    /\ is_printing = FALSE
    /\ i = 0
    /\ dev = NoDevice
    /\ response = NoResponse
    /\ status_response = NoResponse
    /\ last_progress = -1
    /\ rejected = {}
    /\ sent_count = 0
    /\ error_count = 0

(* target_temp = 200, then the loop over the lines of the file. *)
ScanFile ==
    /\ pc = "scan"
    /\ target_temp' = ScanOf(script, gcode_lines)
    /\ pc' = "scanned"
    /\ UNCHANGED <<script, sendVars, ioVars, exit_code, cmd, mode, status, trace, printed,
                   elapsed, i, heatVars, devVars, basename, file_list, sd_filename,
                   is_printing>>

ScanSpec == ScanInit /\ [][ScanFile]_vars

-----------------------------------------------------------------------------
(* print_direct.py from its step 6 on: the commands of the file are sent   *)
(* one by one.  gcode_lines is the list of commands the scan has built     *)
(* (comments and empty lines are not in it); trace holds the commands of   *)
(* step 6 and after.                                                       *)

MaxCommands == 3

(* The commands of the files: a move, a heating command, heater off. *)
DirectLines ==
    { Line("other", "absent", 0), Line("M104", "ok", 203), Line("M104", "ok", 0) }

DirectInit ==
    /\ script = PrintDirect
    /\ pc = "send"
    /\ gcode_lines \in UNION {[1..n -> DirectLines] : n \in 0..MaxCommands}
    /\ exit_code = -1
    /\ cmd = 1
    /\ mode = "Firmware"
    /\ status = None
    /\ trace = <<>>
    /\ printed = {}
    /\ target_temp = ScanOf(PrintDirect, gcode_lines)
    /\ transferring = FALSE
    /\ elapsed = 0
    /\ current_temp = NoTemp
    /\ last_reported_temp = -999
    /\ samples = 0
    /\ basename = <<>>
    /\ file_list = NoList
    /\ sd_filename = <<>>
    /\ is_printing = FALSE
    /\ i = 0
    /\ dev = NoDevice
    /\ response = NoResponse
    /\ status_response = NoResponse
    /\ last_progress = -1
    /\ rejected = {}
    /\ sent_count = 0
    /\ error_count = 0

(* A pass that gives up the rest of the file after a command that raised   *)
(* or was answered with an error.                                          *)
SendLineStopping ==
    /\ pc = "send"
    /\ i < Len(gcode_lines)
    /\ \E how \in {"ok", "error", "raise", "interrupt"}, went, counted \in BOOLEAN :
         /\ how \in {"ok", "error"} => (went /\ counted)
         /\ how = "raise" => ~counted
         /\ counted => went
         /\ trace' = IF went THEN Append(trace, EvA("gcode", gcode_lines[i + 1])) ELSE trace
         /\ sent_count' = IF counted THEN sent_count + 1 ELSE sent_count
         /\ error_count' = IF how \in {"error", "raise"} THEN error_count + 1 ELSE error_count
         /\ printed' = printed \cup
               (CASE how = "error"     -> {"ERROR on line"}
                  [] how = "raise"     -> {"Exception on line"}
                  [] how = "interrupt" -> {"INTERRUPTED BY USER", "PRINT INTERRUPTED"}
                  [] OTHER             -> {})
         /\ i' = CASE how = "interrupt" -> i
                   [] how = "ok"        -> i + 1
                   [] OTHER             -> Len(gcode_lines)
         /\ pc' = IF how = "interrupt" THEN "interrupted" ELSE "send"
    /\ UNCHANGED <<script, ioVars, exit_code, cmd, mode, status, elapsed, heatVars, devVars,
                   jobVars>>

(* One pass of `for i, line in enumerate(gcode_lines)`.  how = "ok": the    *)
(* answer has no error indication; "error": it contains 'error' or 'bad';  *)
(* "raise": sendCmd() raises an Exception; "interrupt": KeyboardInterrupt, *)
(* before the command went out, while sendCmd() waited for the answer, or  *)
(* after sent_count was counted up.  went: whether the command reached the *)
(* device before sendCmd() raised.                                         *)
SendLine ==
    /\ pc = "send"
    /\ i < Len(gcode_lines)
    /\ \E how \in {"ok", "error", "raise", "interrupt"}, went, counted \in BOOLEAN :
         /\ how \in {"ok", "error"} => (went /\ counted)
         /\ how = "raise" => ~counted
         /\ counted => went
         /\ trace' = IF went THEN Append(trace, EvA("gcode", gcode_lines[i + 1])) ELSE trace
         /\ sent_count' = IF counted THEN sent_count + 1 ELSE sent_count
         /\ error_count' = IF how \in {"error", "raise"} THEN error_count + 1 ELSE error_count
         /\ printed' = printed \cup
               (CASE how = "error"     -> {"ERROR on line"}
                  [] how = "raise"     -> {"Exception on line"}
                  [] how = "interrupt" -> {"INTERRUPTED BY USER", "PRINT INTERRUPTED"}
                  [] OTHER             -> {})
         /\ i' = IF how = "interrupt" THEN i ELSE i + 1
         /\ pc' = IF how = "interrupt" THEN "interrupted" ELSE "send"
    /\ UNCHANGED <<script, ioVars, exit_code, cmd, mode, status, elapsed, heatVars, devVars,
                   jobVars>>

(* except KeyboardInterrupt: ... try: M108, M112 except: pass; c.close();  *)
(* sys.exit(1).  The two commands share one try: when 'M108' raises, 'M112' *)
(* is not sent.                                                            *)
InterruptStop ==
    /\ pc = "interrupted"
    /\ \E m108_raises \in BOOLEAN :
         trace' = trace \o (IF m108_raises THEN <<Ev("M108")>>
                                           ELSE <<Ev("M108"), Ev("M112")>>)
                       \o <<Ev("close")>>
    /\ Exit(1)
    /\ UNCHANGED <<script, sendVars, ioVars, cmd, mode, status, printed, elapsed, i,
                   heatVars, devVars, jobVars>>

(* The loop is through: "PRINT COMPLETE!", cmd.sendCmd('M104 S0\n'),       *)
(* c.close().  sendCmd() raising here is not caught.                       *)
SendComplete ==
    /\ pc = "send"
    /\ i >= Len(gcode_lines)
    /\ printed' = printed \cup {"PRINT COMPLETE"}
    /\ \E raises \in BOOLEAN :
         IF raises
           THEN /\ trace' = Append(trace, EvA("M104", 0))
                /\ Crash
           ELSE /\ trace' = trace \o <<EvA("M104", 0), Ev("close")>>
                /\ pc' = "done"
                /\ exit_code' = 0
    /\ UNCHANGED <<script, sendVars, ioVars, cmd, mode, status, elapsed, i,
                   heatVars, devVars, jobVars>>

DirectNext ==
    \/ SendLine
    \/ InterruptStop
    \/ SendComplete

DirectSpec == DirectInit /\ [][DirectNext]_vars

-----------------------------------------------------------------------------
(* Properties.                                                             *)

(* How often command c was issued, and where it was issued first. *)
Count(c) == Cardinality({k \in 1..Len(trace) : trace[k].cmd = c})

Pos(c) == CHOOSE k \in 1..Len(trace) : trace[k].cmd = c

(* ---- C1 ---- *)

(* A device that starts printing after 'M23 <name>' + 'M24' and after      *)
(* nothing else.                                                           *)
SecondDialectDevice ==
    /\ script = TestM23M24
    /\ dev.honours = 2
    /\ ~dev.erratic

(* C1: with a device that reports printing only after the second dialect,  *)
(* print_test_m23m24.py issues 'M33 <name>' once, gets isPrinting() =      *)
(* False, issues 'M23 <name>' and 'M24', ends with isPrinting() = True,    *)
(* and never issues initSD or a second 'M33 <name>'.                       *)
C1_FallbackStopsAtSecondDialect ==
    SecondDialectDevice =>
      /\ Count("initSD") = 0
      /\ Count("M33") <= 1
      /\ Count("M23") > 0 => Count("M33") = 1 /\ Pos("M33") < Pos("M23")
      /\ pc \in {"close", "done"} =>
           /\ Count("M33") = 1
           /\ Count("M23") = 1
           /\ Count("M24") = 1
           /\ Pos("M24") = Pos("M23") + 1
           /\ \E k \in Pos("M33")..Pos("M23") : trace[k].cmd = "isPrinting"
           /\ \A k \in Pos("M33")..Pos("M23") :
                trace[k].cmd = "isPrinting" => trace[k].arg = FALSE
           /\ \E k \in Pos("M24")..Len(trace) :
                trace[k].cmd = "isPrinting" /\ trace[k].arg = TRUE
           /\ is_printing

(* The script has run to its end with such a device. *)
C1_Witness ==
    /\ SecondDialectDevice
    /\ pc = "done"
    /\ is_printing
    /\ Count("M24") = 1

(* ---- C2 ---- *)

(* C2: in src/src/print.py, when no M32 or M625 answer confirms, the       *)
(* confirmation loop ends after exactly 6 rounds (6 M32 and 6 M625) with   *)
(* is_printing False; no run sends more than 6 M32 or 6 M625, so no probe  *)
(* follows the sixth round.                                                *)
C2_SixProbeRounds ==
    script = SrcPrint =>
      /\ Count("M32") <= 6
      /\ Count("M625") <= 6
      /\ (pc = "probe_done" /\ ~is_printing) =>
           /\ i = 6
           /\ Count("M32") = 6
           /\ Count("M625") = 6

(* The loop has ended unconfirmed after its sixth round. *)
C2_Witness ==
    /\ script = SrcPrint
    /\ pc = "probe_done"
    /\ ~is_printing
    /\ Count("M625") = 6

(* ---- C3 ---- *)

StartCommands == {"M32", "M33", "M23", "M24"}

(* C3: no step of any workflow sends a start command (M32, M33, M23, M24)  *)
(* while the transfer is still in progress.                                *)
C3_NoStartDuringTransfer ==
    [][(\E k \in (Len(trace) + 1)..Len(trace') : trace'[k].cmd \in StartCommands)
         => ~transferring]_vars

(* ---- C4 ---- *)

(* What is not a command to the device: the settle sleep and the calls on  *)
(* the connection object.                                                  *)
DeviceCommand(e) == e.cmd \notin {"sleep", "reconnect", "getCommandIntf", "close"}

(* C4: every device command that follows goToFirmware comes after a settle *)
(* sleep, a reconnect() that returned True and a getCommandIntf() that     *)
(* returned an interface.                                                  *)
C4_NoCommandUntilReconnected ==
    \A k \in 1..Len(trace) :
      trace[k].cmd = "goToFirmware" =>
        \A j \in (k + 1)..Len(trace) :
          DeviceCommand(trace[j]) =>
            /\ \E a \in (k + 1)..(j - 1) : trace[a].cmd = "sleep"
            /\ \E a \in (k + 1)..(j - 1) :
                 trace[a].cmd = "reconnect" /\ trace[a].arg = TRUE
            /\ \E a \in (k + 1)..(j - 1) :
                 trace[a].cmd = "getCommandIntf" /\ trace[a].arg # 0

(* ---- C5 ---- *)

(* The first getPrinterMode() answered 'Firmware'. *)
FirmwareAtStart ==
    /\ Len(trace) >= 1
    /\ trace[1].cmd = "getPrinterMode"
    /\ trace[1].arg = "Firmware"

(* C5: when getPrinterMode() answers 'Firmware', no script sends           *)
(* goToFirmware, sleeps, reconnects or fetches a new command interface:    *)
(* the interface stays the first one, the script is never at a step of     *)
(* the switch, and it has taken none of the error exits of the switch.     *)
C5_FirmwareModeIsNoOp ==
    FirmwareAtStart =>
      /\ Count("goToFirmware") = 0
      /\ Count("sleep") = 0
      /\ Count("reconnect") = 0
      /\ Count("getCommandIntf") = 0
      /\ cmd = 1
      /\ pc \notin {"go_firmware", "settle", "reconnect", "get_intf"}
      /\ printed \cap {"ERROR: reconnect", "ERROR: no command interface"} = {}

(* A script found the device in firmware mode and ran to its end. *)
C5_Witness ==
    /\ FirmwareAtStart
    /\ Len(trace) > 1
    /\ pc = "done"

(* ---- C6 ---- *)

(* The last sample meets the success condition of the heating loop. *)
MeetsTarget ==
    /\ samples > 0
    /\ current_temp # NoTemp
    /\ current_temp >= target_temp - 2

(* C6: in src/src/print.py and src/print.py the heat-set command is sent   *)
(* exactly once however many samples are taken; the loop is still waiting  *)
(* only while no sample has met the success condition, so the first        *)
(* sample that meets it is the last one requested; and the loop is left    *)
(* with that sample announced as reached.                                  *)
C6_HeatingStopsAtFirstSuccess ==
    script \in {SrcPrint, RootPrint} =>
      /\ Count(HeatCommand(script)) <= 1
      /\ samples > 0 => Count(HeatCommand(script)) = 1
      /\ pc = "heat_wait" => ~MeetsTarget
      /\ MeetsTarget =>
           /\ pc = (IF script = SrcPrint THEN "init_sd" ELSE "derive")
           /\ "Target temperature reached" \in printed
      /\ "Target temperature reached" \in printed /\ samples > 0 => MeetsTarget

(* The second sample of a run was the first to meet the condition. *)
C6_Witness ==
    /\ script = RootPrint
    /\ pc = "derive"
    /\ samples = 2
    /\ MeetsTarget
    /\ target_temp = 200
    /\ current_temp = 198

(* ---- C7 ---- *)

(* The heating loop has run for its 300 seconds. *)
HeatTimedOut ==
    \/ script = SrcPrint /\ elapsed >= 300
    \/ script = StandalonePrint /\ i >= 300

(* C7: when the heating loop of src/src/print.py or of the standalone      *)
(* script runs out of time, the script does not fail: it is at the end of  *)
(* the loop or at the stage that follows.                                  *)
C7_HeatingTimeoutProceeds ==
    HeatTimedOut => pc \in {"heat_wait", "heat_end", "init_sd", "derive"}

(* ---- C8 ---- *)

(* The script is in a polling wait loop. *)
InWaitLoop == pc \in {"transfer_wait", "heat_wait", "probe"}

(* C8: a script that is in a wait loop (transfer, heating, print-start     *)
(* confirmation) leaves it, whatever the device answers.                   *)
C8_WaitLoopsTerminate == [](InWaitLoop => <>(~InWaitLoop))

(* ---- C9 ---- *)

(* The letters and digits of the host name, in order. *)
Alnums == StripNonAlnum(basename)

(* C9: a host name with more than 7 letters and digits gets a device name  *)
(* of at most 7 characters, which are the first 7 letters and digits of    *)
(* the host name, except that a leading digit is replaced by a letter.     *)
C9_TruncatesToSeven ==
    (pc = "sanitized" /\ Len(Alnums) > 7) =>
      /\ Len(sd_filename) = 7
      /\ \A k \in 2..7 : sd_filename[k] = Alnums[k]
      /\ IF IsDigit(Alnums[1]) THEN ~IsDigit(sd_filename[1])
                               ELSE sd_filename[1] = Alnums[1]

(* ---- C10 ---- *)

(* C10: a host name of digits and symbols only gets a device name that is  *)
(* not empty and does not start with a digit.                              *)
C10_DigitsAndSymbols ==
    (pc = "sanitized" /\ \A k \in 1..Len(basename) : basename[k] \notin Lower \cup Upper) =>
      /\ sd_filename # <<>>
      /\ ~IsDigit(sd_filename[1])

(* ---- C11 ---- *)

(* The host file name consists of non-alphanumeric characters only. *)
EmptyAfterStrip ==
    /\ script \in {RootPrint, StandalonePrint}
    /\ basename # <<>>
    /\ StripNonAlnum(basename) = <<>>

(* A device file name a command carries: not empty and alphanumeric. *)
IsToken(name) == name # <<>> /\ StripNonAlnum(name) = name

(* C11: when stripping the host file name leaves nothing, the device file  *)
(* name in the start command ('M32 <name>' of src/print.py, 'M33 <name>'   *)
(* of the standalone script) is a non-empty alphanumeric default that is   *)
(* not taken from the directory listing, and the standalone script passes  *)
(* that same name to transferSDFile.                                       *)
C11_EmptyNameFallback ==
    EmptyAfterStrip =>
      \A k \in 1..Len(trace) :
        /\ trace[k].cmd \in {"M32", "M33"} =>
             /\ IsToken(trace[k].arg)
             /\ ~InList(trace[k].arg, file_list)
             /\ \A j \in 1..Len(trace) :
                  (script = StandalonePrint /\ trace[j].cmd = "transfer")
                     => trace[j].arg = trace[k].arg
        /\ (script = StandalonePrint /\ trace[k].cmd = "transfer") =>
             IsToken(trace[k].arg)

(* ---- C12 ---- *)

(* C12: a derived name that is alphanumeric and at most 7 characters long  *)
(* is left unchanged by the derivation (src/print.py 218-222, standalone   *)
(* script 118-122) applied to it again.                                    *)
C12_SanitizeIdempotent ==
    (pc = "resanitized" /\ IsToken(basename) /\ Len(basename) <= 7)
        => sd_filename = basename

(* A second derivation of a 7-character name that starts with the filler. *)
C12_Witness ==
    /\ pc = "resanitized"
    /\ script = RootPrint
    /\ Len(basename) = 7
    /\ basename[1] = "a"
    /\ IsToken(basename)
    /\ sd_filename = basename
    /\ \E k \in 2..7 : basename[k] = "1"

(* ---- C13 ---- *)

(* The heating commands of the file, by line number. *)
HeatLines == {k \in 1..Len(gcode_lines) : IsHeatLine(gcode_lines[k])}

(* The file has a heating command, and each one it has is 'M104 S0'. *)
OnlyHeaterOff ==
    /\ HeatLines # {}
    /\ \A k \in HeatLines : gcode_lines[k] = Line("M104", "ok", 0)

(* C13: the scan of a file whose only heating command is 'M104 S0' gives   *)
(* the default target temperature (200), in every script that scans.       *)
C13_HeaterOffGivesDefault ==
    (pc = "scanned" /\ OnlyHeaterOff) => target_temp = DefaultTemp

(* ---- C14 ---- *)

(* The heating commands whose value parses and is above the threshold. *)
Qualifying ==
    {k \in HeatLines : Parsable(gcode_lines[k]) /\ gcode_lines[k].s > TempThreshold}

LastQualifying == CHOOSE k \in Qualifying : \A j \in Qualifying : j <= k

(* C14: when a file has several M104/M109 commands with different values   *)
(* above the threshold, the scanned target temperature is the value of     *)
(* the last of them in file order.                                         *)
C14_LastQualifyingWins ==
    ( /\ pc = "scanned"
      /\ \E j, k \in Qualifying : gcode_lines[j].s # gcode_lines[k].s )
        => target_temp = gcode_lines[LastQualifying].s

(* ---- C15 ---- *)

(* A step of a transfer loop that polls the completion percentage. *)
InProgressLoop == pc = "transfer_wait" /\ script \in ShowsProgress

(* C15: in every step of the transfer loop the completion percentage the   *)
(* loop has observed does not go down, and when the loop sees the transfer *)
(* as complete it has observed the value 100 (once: a value is recorded    *)
(* only when it differs from the last one, and none is lower).             *)
C15_ProgressMonotoneTo100 ==
    [][InProgressLoop =>
         /\ last_progress' >= last_progress
         /\ pc' # "transfer_wait" => last_progress' = 100]_vars

(* ---- C16 ---- *)

(* The two signals in the answers of the last round: 's:5' in the 'M625'   *)
(* answer, one of the fields A, B, C, D in the 'M32' answer.               *)
M625Signal == Truthy(status_response) /\ Contains(status_response, RespS5)

M32Signal == Truthy(response) /\ \E x \in {"A", "B", "C", "D"} : HasField(response, x)

(* C16: a probe round reports printing exactly when one of the two signals *)
(* is in its answers: the confirmation loop of src/src/print.py goes on    *)
(* only after a round with neither signal and ends confirmed exactly after *)
(* a round with one, and a pass of monitor.py reports printing exactly     *)
(* when one of the signals is there.                                       *)
C16_EitherSignalConfirms ==
    /\ (script = SrcPrint /\ pc = "probe" /\ i > 0) => ~(M32Signal \/ M625Signal)
    /\ (script = SrcPrint /\ pc = "probe_done") =>
          (is_printing <=> (M32Signal \/ M625Signal))
    /\ (script = Monitor /\ pc = "monitor_pass"
          /\ printed \cap {"PRINTING", "IDLE/READY"} # {}) =>
          (is_printing <=> (M32Signal \/ M625Signal))

(* ---- C17 ---- *)

(* C17: clearShutdownFlag() is issued only right after a getStatus() that  *)
(* answered 'Shutdown', at most once in a run, and is followed by another  *)
(* getStatus(); when that one still answers 'Shutdown' the workflow does   *)
(* not go on as if the printer were ready: no command other than close()   *)
(* follows.                                                                *)
C17_ShutdownClearedOnce ==
    /\ Count("clearShutdownFlag") <= 1
    /\ \A k \in 1..Len(trace) :
         trace[k].cmd = "clearShutdownFlag" =>
           /\ k > 1
           /\ trace[k - 1].cmd = "getStatus"
           /\ trace[k - 1].arg = "Shutdown"
           /\ k < Len(trace)
           /\ trace[k + 1].cmd = "getStatus"
           /\ trace[k + 1].arg = "Shutdown" =>
                \A j \in (k + 2)..Len(trace) : trace[j].cmd = "close"

(* ---- C18 ---- *)

(* C18: in print_test_m23m24.py, once an isPrinting() probe has answered   *)
(* True, no start command ('M33 <name>', 'M23 <name>', 'M24') and no       *)
(* initSD() follows, whatever the later probes answer.                     *)
C18_NoStartAfterPrinting ==
    script = TestM23M24 =>
      \A k \in 1..Len(trace) :
        (trace[k].cmd = "isPrinting" /\ trace[k].arg = TRUE) =>
          \A j \in (k + 1)..Len(trace) :
            trace[j].cmd \notin {"M33", "M23", "M24", "initSD"}

(* ---- C19 ---- *)

(* Event k is a failed re-establishment of the connection: reconnect()     *)
(* answered False, or getCommandIntf() gave None.                          *)
ReconnectFailed(k) ==
    \/ trace[k].cmd = "reconnect" /\ trace[k].arg = FALSE
    \/ trace[k].cmd = "getCommandIntf" /\ trace[k].arg = 0

(* C19: in every script that reconnects after the mode switch, a failed    *)
(* reconnect is the last thing the script does with the device: the        *)
(* failure is printed, the script exits with status 1, and no command      *)
(* (heating, transfer, print start) follows.                               *)
C19_ReconnectFailureStops ==
    \A k \in 1..Len(trace) :
      ReconnectFailed(k) =>
        /\ k = Len(trace)
        /\ pc = "exited"
        /\ exit_code = 1
        /\ printed \cap {"ERROR: reconnect", "ERROR: no command interface"} # {}

(* ---- C20 ---- *)

(* C20: when the answer to 'M21', 'M23 abcde' or 'M33' carried an error    *)
(* indication, the script does not report the print as started, and it     *)
(* does not end with exit status 0.                                        *)
C20_StartErrorsSurface ==
    (script \in {SrcPrint, Calibrate} /\ rejected # {}) =>
      /\ printed \cap {"PRINT STARTED", "Print started"} = {}
      /\ pc \in {"done", "exited", "crashed"} => exit_code # 0

(* ---- C21 ---- *)

(* The temperature a script heats to: what its heat-set command carries. *)
HeatTarget == IF script = StandalonePrint THEN target_temp + HeatMargin ELSE target_temp

(* C21: every step of a heating loop that takes a sample ends the loop as  *)
(* reached exactly when the sample is not absent and is at least the       *)
(* target minus 2 degrees, whether or not the sample was reported.         *)
C21_ReachedWithinTwoDegrees ==
    [][(pc = "heat_wait" /\ samples' # samples) =>
         ( (pc' # "heat_wait" /\ "Target temperature reached" \in printed')
             <=> (current_temp' # NoTemp /\ current_temp' >= HeatTarget - 2) )]_vars

(* ---- C22 ---- *)

(* The heating loops that report by temperature change. *)
Throttled == HeatsWithTimeout \cup {Calibrate}

(* A step of such a loop that takes a sample. *)
ThrottledSample == script \in Throttled /\ pc = "heat_wait" /\ samples' # samples

(* The sample of this step is reported: it becomes the last reported one. *)
ReportedNow == last_reported_temp' # last_reported_temp

(* C22 as stated: a sample is reported only when its absolute difference   *)
(* from the last reported temperature exceeds 5 degrees; a difference of   *)
(* exactly 5 or less produces no report.                                   *)
C22_ReportsOnlyAboveFive ==
    [][ThrottledSample =>
         (ReportedNow =>
            /\ current_temp' # NoTemp
            /\ Abs(current_temp' - last_reported_temp) > 5)]_vars

(* C22, amended: a sample is reported exactly when it is not absent and    *)
(* its absolute difference from the last reported temperature is at least  *)
(* 5 degrees: a difference of exactly 5 is reported, a smaller one is not. *)
C22_ReportsAtFiveOrMore ==
    [][ThrottledSample =>
         /\ ReportedNow <=>
              (current_temp' # NoTemp /\ Abs(current_temp' - last_reported_temp) >= 5)
         /\ ReportedNow => last_reported_temp' = current_temp']_vars

(* src/unload.py took the sample 205 after it had reported 204: the sample *)
(* was not reported.                                                       *)
C22_Witness ==
    /\ script = RootUnload
    /\ pc = "heat_wait"
    /\ current_temp = 205
    /\ last_reported_temp = 204

(* ---- C23 ---- *)

(* The scripts whose scan has a plausibility threshold. *)
ThresholdScripts == {SrcPrint, Calibrate, PrintDirect}

(* The last line of the set ks, in file order. *)
LastOf(ks) == CHOOSE k \in ks : \A j \in ks : j <= k

(* The scan result when exactly the parsable heating values in ks count. *)
ScanResult(ks) == IF ks = {} THEN 200 ELSE gcode_lines[LastOf(ks)].s

(* C23 as stated: a heating value is ignored exactly when it is below 150; *)
(* a value of exactly 150 is adopted as the target temperature.            *)
C23_IgnoredBelow150 ==
    (script \in ThresholdScripts /\ pc = "scanned") =>
      target_temp =
        ScanResult({k \in HeatLines : Parsable(gcode_lines[k]) /\ gcode_lines[k].s >= 150})

(* C23, amended: a heating value is ignored exactly when it is not above   *)
(* 150; a value of exactly 150 is ignored like 149, and the target is the  *)
(* last value above 150, or the default 200 when there is none.            *)
C23_IgnoredUpTo150 ==
    (script \in ThresholdScripts /\ pc = "scanned") =>
      target_temp =
        ScanResult({k \in HeatLines : Parsable(gcode_lines[k]) /\ gcode_lines[k].s > 150})

(* print_direct.py scanned 'M104 S203' followed by 'M104 S150' and kept    *)
(* 203.                                                                    *)
C23_Witness ==
    /\ script = PrintDirect
    /\ pc = "scanned"
    /\ gcode_lines = <<Line("M104", "ok", 203), Line("M104", "ok", 150)>>
    /\ target_temp = 203

(* ---- C24 ---- *)

(* The expected uppercase name, and the entries of the listing that start  *)
(* with its first 6 characters.                                            *)
ExpectedUpper == ToUpper(SdFilename(basename))

PrefixMatches ==
    {k \in 1..Len(file_list) :
       /\ Len(file_list[k]) >= Min(6, Len(ExpectedUpper))
       /\ SubSeq(file_list[k], 1, Min(6, Len(ExpectedUpper)))
             = SubSeq(ExpectedUpper, 1, Min(6, Len(ExpectedUpper)))}

(* C24: the name src/print.py sends with 'M32' is the expected uppercase   *)
(* name when the listing contains it; else the first listed entry that     *)
(* starts with the first 6 characters of the expected name; else, and when *)
(* there is no listing, the expected name itself; and the script always    *)
(* gets to the start command.                                              *)
C24_DirectoryMatching ==
    script = RootPrint =>
      /\ pc \in {"verify", "monitor", "close", "done"} => Count("M32") = 1
      /\ Count("M32") > 0 =>
           trace[Pos("M32")].arg =
             (IF file_list = NoList THEN ExpectedUpper
              ELSE IF \E k \in 1..Len(file_list) : file_list[k] = ExpectedUpper
                THEN ExpectedUpper
              ELSE IF PrefixMatches # {}
                THEN file_list[CHOOSE k \in PrefixMatches : \A j \in PrefixMatches : k <= j]
              ELSE ExpectedUpper)

(* "cage.gcode" was started under the name of a listed file that has only  *)
(* the first 6 characters of the expected name.                            *)
C24_Witness ==
    /\ script = RootPrint
    /\ pc = "verify"
    /\ basename = <<"c", "a", "g", "e", ".", "g", "c", "o", "d", "e">>
    /\ file_list = <<OtherFile, <<"C", "A", "G", "E", "G", "C">> >>
    /\ Last(trace).cmd = "M32"
    /\ Last(trace).arg = <<"C", "A", "G", "E", "G", "C">>

(* ---- C25 ---- *)

(* The commands that select or start a file by name. *)
NamingCommands == {"M23", "M32", "M33"}

(* The name under which the transferred file lies on the device, in its    *)
(* directory-listing form.                                                 *)
OnDeviceName == IF script = SrcPrint THEN FixedName ELSE ExpectedUpper

(* C25: in src/src/print.py and src/print.py a filename passed with a file *)
(* selecting or starting command is in lowercase, and it is the lowercase   *)
(* form of the name of the file that was transferred.                       *)
C25_ArgumentIsLowercase ==
    script \in {SrcPrint, RootPrint} =>
      \A k \in 1..Len(trace) :
        (trace[k].cmd \in NamingCommands /\ trace[k].arg # <<>>) =>
          /\ trace[k].arg = ToLower(trace[k].arg)
          /\ trace[k].arg = ToLower(OnDeviceName)

(* ---- C26 ---- *)

(* The step after the last probe of src/src/print.py, or the verification  *)
(* of src/print.py, finds the print unconfirmed.                           *)
UnconfirmedStep ==
    \/ script = SrcPrint /\ pc = "probe_done" /\ ~is_printing
    \/ script = RootPrint /\ pc = "verify" /\ ~is_printing'

(* C26: when no probe confirms the print, the step reports the unclear     *)
(* status and goes on to status monitoring: the process does not end, the  *)
(* connection is not closed, and the only commands it sends are the        *)
(* queries of the verification.                                            *)
C26_UnconfirmedStartIsWarning ==
    [][ UnconfirmedStep =>
          /\ pc' = "monitor"
          /\ exit_code' = -1
          /\ "WAITING FOR PRINT" \in printed'
          /\ printed' \cap {"WARNING: Print status unclear", "WARNING: not printing"} # {}
          /\ Len(trace') >= Len(trace)
          /\ \A k \in 1..Len(trace') :
               k > Len(trace) => trace'[k].cmd \in {"isPrinting", "getStatus"}
          /\ \A k \in 1..Len(trace') : trace'[k].cmd # "close" ]_vars

(* src/src/print.py is monitoring after six probes without a confirmation. *)
C26_Witness ==
    /\ script = SrcPrint
    /\ pc = "monitor"
    /\ i = ProbeRounds
    /\ ~is_printing
    /\ "WARNING: Print status unclear" \in printed
    /\ exit_code = -1
    /\ \A k \in 1..Len(trace) : trace[k].cmd # "close"

(* ---- C27 ---- *)

(* A pass of a monitoring loop whose poll fails: it raises, or, in         *)
(* monitor.py, answers with an estimated time and no elapsed time.         *)
FailedPoll ==
    \/ /\ script \in {SrcPrint, RootPrint}
       /\ pc = "monitor"
       /\ "Error reading status" \in printed' \ printed
    \/ /\ script = Monitor
       /\ pc = "monitor_pass"
       /\ "ERROR" \in printed' \ printed

(* C27: a pass of a monitoring loop whose poll fails or answers with       *)
(* incomplete data leaves the loop running: the loop polls again and the   *)
(* process does not end.                                                   *)
C27_FailedPollPollsAgain ==
    [][ FailedPoll => (pc' = pc /\ exit_code' = exit_code) ]_vars

(* ---- C28 ---- *)

(* A pass of the monitoring loop after the start in which a poll raises. *)
RaisingPoll ==
    /\ script \in {SrcPrint, RootPrint, StandalonePrint}
    /\ pc = "monitor"
    /\ "Error reading status" \in printed' \ printed

(* C28: when a poll of the monitoring loop after the start raises, the     *)
(* loop reports it and ends, no command is sent, and the next thing the    *)
(* script does is to close the connection.                                 *)
C28_MonitoringErrorCloses ==
    [][ RaisingPoll => (pc' = "close" /\ trace' = trace) ]_vars

(* ---- C29 ---- *)

(* The step in which a script finds that it cannot read its source file:   *)
(* the file is missing, or open() raises in the scan.                      *)
SourceUnreadable ==
    /\ script \in {SrcPrint, RootPrint, Calibrate}
    /\ \/ pc = "scan" /\ pc' = "crashed"
       \/ "ERROR: File not found" \in printed' \ printed

(* C29: a script that cannot read its source file ends with an error, and  *)
(* it has not dealt with the device by then: no connect, mode switch,      *)
(* shutdown clearing or other command has been issued.                     *)
C29_UnreadableSourceFailsFast ==
    [][ SourceUnreadable => (trace = <<>> /\ pc' \in {"exited", "crashed"} /\ exit_code' = 1) ]_vars

(* ---- C30 ---- *)

(* Some event before the k-th is the command c. *)
Before(k, c) == \E j \in 1..(k - 1) : trace[j].cmd = c

(* C30: in src/src/print.py, the standalone script and the test print of   *)
(* calibrate.py the heat-set command is sent only after the transfer was   *)
(* started and seen complete, the selecting and starting commands only     *)
(* after the heat-set command, and the monitoring follows the start.       *)
C30_StageOrder ==
    script \in {SrcPrint, StandalonePrint, Calibrate} =>
      /\ \A k \in 1..Len(trace) :
           /\ trace[k].cmd = "M104" => Before(k, "transfer")
           /\ trace[k].cmd \in {"M23", "M33"} => Before(k, "M104")
      /\ pc = "heat_start" => (Count("transfer") = 1 /\ ~transferring)
      /\ pc = "monitor" => Count("M33") = 1

(* ---- C31 ---- *)

(* The stripped and truncated name, before the test of its first character. *)
TruncatedName ==
    IF script = RootPrint
      THEN IF Len(StripNonAlnum(basename)) > 8
             THEN SubSeq(StripNonAlnum(basename), 1, 7)
             ELSE StripNonAlnum(basename)
      ELSE StripReplaced(SubSeq(basename, 1, Min(8, Len(basename))))

(* C31: when the stripped and truncated name starts with a digit, the      *)
(* derived name has the length of the truncated name, a letter in the      *)
(* first place, and after it the characters of the truncated name          *)
(* unchanged.                                                              *)
C31_FillerKeepsLength ==
    (pc = "sanitized" /\ TruncatedName # <<>> /\ IsDigit(TruncatedName[1])) =>
      /\ Len(sd_filename) = Len(TruncatedName)
      /\ ~IsDigit(sd_filename[1])
      /\ \A k \in 2..Len(TruncatedName) : sd_filename[k] = TruncatedName[k]

(* ---- C32 ---- *)

(* A heating command whose temperature argument does not parse. *)
Malformed(l) == IsHeatLine(l) /\ l.parse # "ok"

(* The file without its malformed heating lines. *)
WellFormedLines == SelectSeq(gcode_lines, LAMBDA l : ~Malformed(l))

(* C32: in src/src/print.py and src/print.py the scan of a file with       *)
(* malformed heating lines ends, and with the target temperature it gives  *)
(* for the file without those lines: a malformed line changes nothing.     *)
C32_MalformedLinesSkipped ==
    (pc = "scanned" /\ script \in {SrcPrint, RootPrint}) =>
      /\ exit_code = -1
      /\ target_temp = ScanOf(script, WellFormedLines)

(* src/print.py has scanned a file whose last heating line is malformed    *)
(* and kept the temperature found before it.                               *)
C32_Witness ==
    /\ pc = "scanned"
    /\ script = RootPrint
    /\ gcode_lines = <<Line("M104", "ok", 203), Line("M104", "bad", 0)>>
    /\ target_temp = 203

(* ---- C33 ---- *)

(* C33: in src/src/print.py the step that sends 'M23 abcde' ends the run    *)
(* with a reported error when the answer contains 'error' in any letter     *)
(* case, and goes on to 'M33' for every other answer, an absent one         *)
(* included; 'M33' is never sent after an answer with 'error'.              *)
C33_SelectErrorStopsStart ==
    [][ (script = SrcPrint /\ pc = "select_file") =>
          IF response' # NoResponse /\ HasError(response')
            THEN /\ pc' = "exited"
                 /\ exit_code' = 1
                 /\ "ERROR: M23 failed" \in printed'
                 /\ Count("M33") = 0
            ELSE pc' = "start_m33" ]_vars

(* ---- C34 ---- *)

(* The process has ended, and it had opened the connection and got its     *)
(* command interface.                                                      *)
EndedConnected == pc \in {"done", "exited"} /\ cmd = 1

(* C34: when src/src/print.py or print_test_m23m24.py ends after it opened  *)
(* the connection, close() has been called on it, once.                     *)
C34_ConnectionReleased ==
    (script \in {SrcPrint, TestM23M24} /\ EndedConnected) => Count("close") = 1

(* ---- C35 ---- *)

(* The user has interrupted the monitoring loop. *)
Interrupted == "Monitoring stopped by user" \in printed

(* C35: in src/src/print.py and src/print.py the pass of the monitoring     *)
(* loop that is interrupted sends nothing and leaves the loop; from then on *)
(* the only thing done is to close the connection: no stop, pause or        *)
(* heater command and no further poll.                                      *)
C35_InterruptOnlyCloses ==
    [][ (script \in {SrcPrint, RootPrint}) =>
          /\ (pc = "monitor" /\ Interrupted' /\ ~Interrupted) =>
                (trace' = trace /\ pc' = "close")
          /\ Interrupted =>
                (pc = "close" /\ pc' = "done" /\ trace' = Append(trace, Ev("close")))
      ]_vars

(* src/print.py has ended after an interrupt of its monitoring loop, with   *)
(* the connection closed as the last thing done.                            *)
C35_Witness ==
    /\ script = RootPrint
    /\ pc = "done"
    /\ Interrupted
    /\ Last(trace).cmd = "close"
    /\ Count("close") = 1

(* ---- C36 ---- *)

(* The commands of the file that went out, in the order they went out. *)
SentLines == SelectSeq(trace, LAMBDA e : e.cmd = "gcode")

(* The passes of the send loop begun so far. *)
Attempted == IF pc \in {"interrupted", "exited"} THEN i + 1 ELSE i

(* a is b with some of its elements left out. *)
RECURSIVE IsSubsequence(_, _)
IsSubsequence(a, b) ==
    IF a = <<>> THEN TRUE
    ELSE IF b = <<>> THEN FALSE
    ELSE IF Head(a) = Head(b) THEN IsSubsequence(Tail(a), Tail(b))
    ELSE IsSubsequence(a, Tail(b))

(* C36: print_direct.py sends the commands of the file in file order, each *)
(* at most once; sent_count is at most the number of commands, and         *)
(* error_count at most the number of commands attempted; a command that    *)
(* raised or was answered with an error is counted and the ones after it   *)
(* are still sent; at the end 'M104 S0' is sent and then the connection is *)
(* closed.                                                                 *)
C36_DirectSendLoop ==
    /\ Len(SentLines) <= Attempted
    /\ Attempted <= Len(gcode_lines)
    /\ IsSubsequence([k \in 1..Len(SentLines) |-> SentLines[k].arg],
                     SubSeq(gcode_lines, 1, Attempted))
    /\ sent_count <= Len(SentLines)
    /\ sent_count <= Len(gcode_lines)
    /\ error_count <= Attempted
    /\ pc = "send" => sent_count + error_count >= i
    /\ pc = "done" =>
         /\ i = Len(gcode_lines)
         /\ sent_count + error_count >= Len(gcode_lines)
         /\ Len(trace) = Len(SentLines) + 2
         /\ trace[Len(trace) - 1] = EvA("M104", 0)
         /\ trace[Len(trace)] = Ev("close")

(* A file of three commands is through: one command raised, one was        *)
(* answered with an error, the third went out after them; heater off and   *)
(* close ended the run.                                                    *)
C36_Witness ==
    /\ script = PrintDirect
    /\ pc = "done"
    /\ Len(gcode_lines) = 3
    /\ error_count = 2
    /\ sent_count = 2
    /\ Len(SentLines) = 2
    /\ SentLines[2].arg = gcode_lines[3]
    /\ {"ERROR on line", "Exception on line"} \subseteq printed
    /\ Last(trace).cmd = "close"

(* ---- C37 ---- *)

(* C37: when print_direct.py has ended after an interrupt of its send      *)
(* loop, the last things it did were to attempt 'M108', to attempt 'M112'  *)
(* and to close the connection, whether or not the two sends failed; no    *)
(* command of the file went out after the interrupt, and the exit status   *)
(* is 1.                                                                   *)
C37_InterruptStopsAndCloses ==
    (script = PrintDirect /\ pc = "exited" /\ "PRINT INTERRUPTED" \in printed) =>
      /\ exit_code = 1
      /\ Len(trace) = Len(SentLines) + 3
      /\ trace[Len(trace) - 2].cmd = "M108"
      /\ trace[Len(trace) - 1].cmd = "M112"
      /\ trace[Len(trace)].cmd = "close"

(* ---- C38 ---- *)

(* The positioning-mode commands sent so far, by place in the trace. *)
PositioningCommands == {k \in 1..Len(trace) : trace[k].cmd \in {"G90", "G91"}}

(* C38: src/unload.py retracts at most 10 times 5 mm, and once the          *)
(* retraction is over, complete or interrupted, 'M104 S0' is sent after it  *)
(* and the last positioning-mode command that was sent is 'G90'.            *)
C38_UnloadEndsSafe ==
    script = RootUnload =>
      /\ Count("G1") <= 10
      /\ \A k \in 1..Len(trace) : trace[k].cmd = "G1" => trace[k].arg = -5
      /\ pc = "done" =>
           /\ Last(trace) = EvA("M104", 0)
           /\ \A k \in PositioningCommands :
                (\A j \in PositioningCommands : j <= k) => trace[k].cmd = "G90"

====
